---- MODULE Spec2Model ----
(***************************************************************************)
(* Interview intelligence pipeline: the crawl engine (BaseScraper.         *)
(* safe_request), the adaptive rate limiter (SmartRateLimiter) and the     *)
(* staged orchestrator with its store (PipelineManager).                   *)
(*                                                                         *)
(* Time of time.time() is counted in milliseconds since the limiter was    *)
(* constructed; datetime.utcnow() of the orchestrator is counted in hours. *)
(* The adaptive multiplier is a fixed-point number in units of 1/10000.    *)
(***************************************************************************)
EXTENDS Integers, Sequences, FiniteSets, TLC

\* ------------------------------------------------------------------ bounds
MaxWaitCalls == 21
MaxTicks == 1
MaxRecordCalls == 1
TickStep == 1000
MaxCalls == 3
MaxRequests == 4
MaxRuns == 2
MaxStoreCalls == 3
MaxFaults == 1
MaxHourSteps == 1
HourStep == 180
MaxBatch == 2
MaxTitle == 1
MaxContent == 3
MaxLimiterCalls == 2
MaxFutureDays == 31
MaxAdaptiveCalls == 15
MaxRobotsCalls == 3
MaxSearchTerms == 3
MaxRobotsTicks == 3
MaxRobotsLines == 2
RobotsStep == 1800000
MaxAgeDays == 2000

\* ------------------------------------------------------- program constants
REQUEST_DELAY == 1
MAX_RETRIES == 2
MAX_CONSECUTIVE_FAILURES == 3
base_requests_per_minute == 20
failure_backoff_num == 3
failure_backoff_den == 2
max_backoff_time == 60
window_seconds == 60
max_total_wait == 10
jitter_low == 800
jitter_high == 1200
adaptive_default == 10000
adaptive_floor == 8000
adaptive_ceiling == 30000
success_streak_limit == 5

forbidden_stop == 3
min_sample_size == 3
hours_threshold == 24
days_threshold == 7
NumScrapers == 4
max_workers == 2

Hosts == {"A", "B"}
Urls == {"a1", "a2", "b1"}
\* urlparse(url).netloc
HostOf(url) == IF url = "b1" THEN "B" ELSE "A"
\* what one HTTP attempt can give: a status code, or a RequestException
Responses == {"200", "403", "404", "429", "500", "exc"}
\* what robots_checker.can_fetch can answer: (is_allowed, crawl_delay)
RobotsAnswers == {<<TRUE, 5>>, <<FALSE, 2>>}
NoRequest == -1

\* the remote pages the adapters can yield as records; a page stands for its
\* source_url, its title and its content
Pages == {"p1", "p2", "p3", "p4"}
CompanyNames == {"X", "Y"}
TopicNames == {"t1", "t2"}
\* the record's company field (what the adapter extracted from the page)
PageCompany(page) == "X"
\* the adapter (by its position in self.scrapers) whose site the page is on
PagePlatform(page) ==
  CASE page = "p1" -> 1 [] page = "p2" -> 2 [] page = "p3" -> 3 [] OTHER -> 4
\* max_experiences as passed by the callers
MaxExperiencesChoices == {2, 20}
NULL == -1
JitterSet == {jitter_low, jitter_high}

VARIABLES
  time_time,             \* time.time(), in ms
  jitter,                \* the factor random.uniform(*jitter_range) draws, in 1/1000
  domain_requests,       \* SmartRateLimiter.domain_requests: host -> deque of timestamps
  rl_domain_failures,    \* SmartRateLimiter.domain_failures
  domain_last_request,   \* SmartRateLimiter.domain_last_request (NoRequest: no entry)
  success_streak,        \* SmartRateLimiter.success_streak
  adaptive_multiplier,   \* SmartRateLimiter.adaptive_multiplier
  released,              \* history: host -> times at which wait_if_needed returned
  n_ticks,               \* history: Tick steps taken
  n_records,             \* history: direct record_success / record_failure calls
  RESPECT_ROBOTS_TXT,    \* Config.RESPECT_ROBOTS_TXT (read from the environment)
  seen_urls,             \* BaseScraper.seen_urls
  domain_failures,       \* BaseScraper.domain_failures (absent key = 0)
  stats,                 \* BaseScraper.stats
  pc,                    \* position of safe_request: "idle" or "attempt"
  attempt,               \* loop variable of the retry loop
  result,                \* what the latest safe_request returned
  call,                  \* history of the current / latest safe_request call
  forbidden_run,         \* history: host -> 403 responses since its last 200
  n_calls,               \* history: safe_request calls started
  utcnow,                \* datetime.utcnow(), in hours
  companies,             \* Company rows (by name)
  experiences,           \* InterviewExperience rows; the id is the index
  topics,                \* Topic rows (by name)
  mentions,              \* TopicMention rows: <<experience id, topic>> -> number of rows
  insights,              \* CompanyInsight rows: <<company, topic>> -> number of rows
  insight_rows,          \* CompanyInsight rows: <<company, topic>> -> fields of the row
  run,                   \* the run_complete_analysis call in progress
  store_call,            \* history: the latest _store_experience call
  insight_call,          \* history: the latest _store_company_insights call
  n_runs,                \* history: run_complete_analysis calls started
  n_store,               \* history: _store_experience calls
  n_insight,             \* history: _store_company_insights calls
  n_faults,              \* history: store errors and adapter exceptions injected
  n_hours,               \* history: clock steps taken
  future_to_company,     \* run_batch_analysis: the submitted futures' companies
  future_state,          \* state of each future: pending, running, a result, raised
  collected,             \* futures the as_completed loop has handled
  batch_results,         \* batch_results: companies_processed and errors
  batch_pc,              \* position of run_batch_analysis: idle, waiting, returned
  worker,                \* the two pool threads: what each is executing
  limiter_log,           \* history: limiter calls the workers' adapters started
  extraction,            \* an extract_company_from_content call: arguments and result
  scrape,                \* one url of the loop of scrape_company_experiences: page, position, record
  robots_cache,          \* RobotsTxtChecker.cache: host -> absent, null or a parsed policy
  robots_cache_ttl,      \* RobotsTxtChecker.cache_ttl: host -> time of the load (NoRequest: no entry)
  robots_call,           \* history: the latest can_fetch call
  n_robots,              \* history: can_fetch calls
  search                 \* a discovery loop: its position, the params of its call, its responses

limiter_vars == <<domain_requests, rl_domain_failures, domain_last_request,
                  success_streak, adaptive_multiplier>>
fetch_vars == <<RESPECT_ROBOTS_TXT, seen_urls, domain_failures, stats, pc,
                attempt, result, call, forbidden_run, n_calls>>
pipe_vars == <<utcnow, companies, experiences, topics, mentions, insights,
               insight_rows, run,
               store_call, insight_call, n_runs, n_store, n_insight, n_faults,
               n_hours>>
batch_vars == <<future_to_company, future_state, collected, batch_results,
                batch_pc, worker, limiter_log>>
extract_vars == <<extraction>>
page_vars == <<scrape>>
robots_vars == <<robots_cache, robots_cache_ttl, robots_call, n_robots>>
search_vars == <<search>>
vars == <<time_time, jitter, limiter_vars, released, n_ticks, n_records,
          fetch_vars, pipe_vars, batch_vars, extract_vars, page_vars, robots_vars, search_vars>>

Min(a, b) == IF a < b THEN a ELSE b
Max(a, b) == IF a > b THEN a ELSE b

RECURSIVE Pow(_, _)
Pow(b, n) == IF n = 0 THEN 1 ELSE b * Pow(b, n - 1)

\* --------------------------------------------------------- SmartRateLimiter

\* while requests and current_time - requests[0] > 60: requests.popleft()
RECURSIVE drop_old(_, _)
drop_old(requests, current_time) ==
  IF requests # <<>> /\ current_time - Head(requests) > window_seconds * 1000
  THEN drop_old(Tail(requests), current_time)
  ELSE requests

\* min(failure_backoff_base ** failure_count, max_backoff_time), in ms;
\* 1.5 ** 11 > 60, so the power is not computed beyond that
backoff_time(failure_count) ==
  IF failure_count >= 11 THEN max_backoff_time * 1000
  ELSE Min((1000 * Pow(failure_backoff_num, failure_count))
              \div Pow(failure_backoff_den, failure_count),
           max_backoff_time * 1000)

\* Factor 2 of _calculate_wait_time: the sliding window
window_wait(requests, wait_time, current_time) ==
  IF Len(requests) >= base_requests_per_minute
  THEN LET oldest_request == IF requests # <<>> THEN Head(requests) ELSE current_time
           time_until_next == window_seconds * 1000 - (current_time - oldest_request)
       IN Max(wait_time, time_until_next)
  ELSE wait_time

\* _calculate_wait_time on the already pruned window; base_delay in seconds,
\* result in ms.  time.time() is seconds since 1970, so with no entry for the
\* domain (last request 0) time_since_last exceeds every possible wait.
calculate_wait_time(domain, base_delay, current_time) ==
  LET requests == drop_old(domain_requests[domain], current_time)
      w1 == base_delay * 1000
      w2 == window_wait(requests, w1, current_time)
      failure_count == rl_domain_failures[domain]
      w3 == IF failure_count > 0 THEN Max(w2, backoff_time(failure_count)) ELSE w2
      w4 == (w3 * adaptive_multiplier[domain]) \div adaptive_default
      last_request_time == domain_last_request[domain]
      w5 == IF last_request_time = NoRequest THEN 0
            ELSE IF current_time - last_request_time < w4
                 THEN w4 - (current_time - last_request_time)
                 ELSE 0
  IN Max(w5, 0)

\* total_wait = min(wait_time * jitter, 10) when wait_time > 0, else no sleep
total_wait(wait_time) ==
  IF wait_time > 0
  THEN Min((wait_time * jitter) \div 1000, max_total_wait * 1000)
  ELSE 0

\* wait_if_needed without _record_request
wait_if_needed_unrecorded(domain, base_delay) ==
  LET now == time_time
      slept == total_wait(calculate_wait_time(domain, base_delay, now))
  IN /\ time_time' = now + slept
     /\ UNCHANGED <<domain_requests, domain_last_request, released>>

\* wait_if_needed: sleep, then _record_request(domain, now) with the time
\* taken before the sleep
wait_if_needed(domain, base_delay) ==
  LET now == time_time
      slept == total_wait(calculate_wait_time(domain, base_delay, now))
  IN /\ domain_requests' = [domain_requests EXCEPT
                              ![domain] = Append(drop_old(@, now), now)]
     /\ domain_last_request' = [domain_last_request EXCEPT ![domain] = now]
     /\ time_time' = now + slept
     /\ released' = [released EXCEPT ![domain] = Append(@, now + slept)]

\* record_success without the reset of the failure count
success_update_keeps_failures(f, s, m) ==
  IF s + 1 >= success_streak_limit
  THEN [f |-> f, s |-> 0, m |-> Max(adaptive_floor, (m * 9) \div 10)]
  ELSE [f |-> f, s |-> s + 1, m |-> m]

\* record_success: the new (failures, streak, multiplier) of the domain
success_update(f, s, m) ==
  IF s + 1 >= success_streak_limit
  THEN [f |-> 0, s |-> 0, m |-> Max(adaptive_floor, (m * 9) \div 10)]
  ELSE [f |-> 0, s |-> s + 1, m |-> m]

\* record_failure without the upper limit of the multiplier
failure_update_uncapped(f, s, m) ==
  [f |-> f + 1, s |-> 0, m |-> (m * 12) \div 10]

\* record_failure: the new (failures, streak, multiplier) of the domain
failure_update(f, s, m) ==
  [f |-> f + 1, s |-> 0, m |-> Min(adaptive_ceiling, (m * 12) \div 10)]

apply_update(domain, u) ==
  /\ rl_domain_failures' = [rl_domain_failures EXCEPT ![domain] = u.f]
  /\ success_streak' = [success_streak EXCEPT ![domain] = u.s]
  /\ adaptive_multiplier' = [adaptive_multiplier EXCEPT ![domain] = u.m]

record_success(domain) ==
  apply_update(domain, success_update(rl_domain_failures[domain],
                                      success_streak[domain],
                                      adaptive_multiplier[domain]))

record_failure(domain) ==
  apply_update(domain, failure_update(rl_domain_failures[domain],
                                      success_streak[domain],
                                      adaptive_multiplier[domain]))

\* ------------------------------------------------- BaseScraper.safe_request

NoCall == [url |-> "none", attempts |-> 0, slept |-> 0, robots |-> FALSE,
           limiter |-> FALSE, responses |-> <<>>, rl_trace |-> <<>>,
           rl_calls |-> <<>>, seen_before |-> FALSE, forbidden_before |-> 0]

\* the history record of a call that starts now
NewCall(url) ==
  [url |-> url, attempts |-> 0, slept |-> 0, robots |-> FALSE,
   limiter |-> FALSE, responses |-> <<>>,
   rl_trace |-> <<rl_domain_failures[HostOf(url)]>>, rl_calls |-> <<>>,
   seen_before |-> url \in seen_urls,
   forbidden_before |-> forbidden_run[HostOf(url)]]

bump(counter) == [stats EXCEPT ![counter] = @ + 1]

\* safe_request without the duplicate check
is_duplicate_never(url) == FALSE

\* if url in self.seen_urls
is_duplicate(url) == url \in seen_urls

\* the circuit breaker of line 103
breaker_open(domain) == domain_failures[domain] >= MAX_CONSECUTIVE_FAILURES

\* the retry loop without the break after the third 403 of the host
handle_response_no_break(status, att, failures) ==
  CASE status = "200" ->
         [rl |-> "success", failures |-> 0, seen |-> TRUE, sleep |-> 0,
          stop |-> TRUE, ret |-> "body", stat |-> "successful_scrapes"]
    [] status = "403" ->
         [rl |-> "none", failures |-> failures + 1, seen |-> FALSE,
          sleep |-> 5 * (att + 1) * 1000, stop |-> FALSE, ret |-> "null",
          stat |-> "forbidden_errors"]
    [] status = "429" ->
         [rl |-> "failure", failures |-> failures, seen |-> FALSE,
          sleep |-> Pow(2, att) * 1000, stop |-> FALSE, ret |-> "null",
          stat |-> "rate_limited"]
    [] status = "exc" ->
         [rl |-> IF att = MAX_RETRIES - 1 THEN "failure" ELSE "none",
          failures |-> failures, seen |-> FALSE, sleep |-> 0, stop |-> FALSE,
          ret |-> "null", stat |-> "none"]
    [] OTHER ->
         [rl |-> "none", failures |-> failures, seen |-> FALSE, sleep |-> 0,
          stop |-> FALSE, ret |-> "null", stat |-> "none"]

\* the body of the retry loop for one response: what the branch does.
\*   rl: the rate limiter call made, failures: the new domain_failures entry,
\*   seen: the url is added to seen_urls, sleep: time.sleep in ms,
\*   stop: the branch returns or breaks, ret: the value returned if it stops
\*   here, stat: the statistics counter it increments
handle_response(status, att, failures) ==
  CASE status = "200" ->
         [rl |-> "success", failures |-> 0, seen |-> TRUE, sleep |-> 0,
          stop |-> TRUE, ret |-> "body", stat |-> "successful_scrapes"]
    [] status = "403" ->
         IF failures + 1 >= forbidden_stop
         THEN [rl |-> "none", failures |-> failures + 1, seen |-> FALSE,
               sleep |-> 0, stop |-> TRUE, ret |-> "null",
               stat |-> "forbidden_errors"]
         ELSE [rl |-> "none", failures |-> failures + 1, seen |-> FALSE,
               sleep |-> 5 * (att + 1) * 1000, stop |-> FALSE, ret |-> "null",
               stat |-> "forbidden_errors"]
    [] status = "429" ->
         [rl |-> "failure", failures |-> failures, seen |-> FALSE,
          sleep |-> Pow(2, att) * 1000, stop |-> FALSE, ret |-> "null",
          stat |-> "rate_limited"]
    [] status = "exc" ->
         [rl |-> IF att = MAX_RETRIES - 1 THEN "failure" ELSE "none",
          failures |-> failures, seen |-> FALSE, sleep |-> 0, stop |-> FALSE,
          ret |-> "null", stat |-> "none"]
    [] OTHER ->
         [rl |-> "none", failures |-> failures, seen |-> FALSE, sleep |-> 0,
          stop |-> FALSE, ret |-> "null", stat |-> "none"]

\* a retry loop that runs one iteration too many
range_exhausted_late(att) == att + 1 >= MAX_RETRIES + 1

\* for attempt in range(Config.MAX_RETRIES): no iteration is left after att
range_exhausted(att) == att + 1 >= MAX_RETRIES

FetchInit ==
  /\ RESPECT_ROBOTS_TXT \in BOOLEAN
  /\ seen_urls = {}
  /\ domain_failures = [h \in Hosts |-> 0]
  /\ stats = [requests_made |-> 0, successful_scrapes |-> 0,
              duplicates_found |-> 0, robots_blocked |-> 0,
              rate_limited |-> 0, forbidden_errors |-> 0]
  /\ pc = "idle"
  /\ attempt = 0
  /\ result = "none"
  /\ call = NoCall
  /\ forbidden_run = [h \in Hosts |-> 0]
  /\ n_calls = 0

\* safe_request(url), lines 80-84: the url was fetched before
SafeRequestDuplicate(url) ==
  /\ pc = "idle" /\ n_calls < MaxCalls
  /\ is_duplicate(url)
  /\ n_calls' = n_calls + 1
  /\ stats' = bump("duplicates_found")
  /\ result' = "null"
  /\ call' = NewCall(url)
  /\ UNCHANGED <<time_time, jitter, limiter_vars, released, n_ticks, n_records,
                 RESPECT_ROBOTS_TXT, seen_urls, domain_failures, pc, attempt,
                 forbidden_run, pipe_vars, batch_vars,
                 extract_vars, page_vars,
                 robots_vars, search_vars>>

\* safe_request(url), lines 87-92: robots.txt forbids the url
SafeRequestBlocked(url, answer) ==
  /\ pc = "idle" /\ n_calls < MaxCalls
  /\ ~is_duplicate(url)
  /\ RESPECT_ROBOTS_TXT /\ ~answer[1]
  /\ n_calls' = n_calls + 1
  /\ stats' = bump("robots_blocked")
  /\ result' = "null"
  /\ call' = [NewCall(url) EXCEPT !.robots = TRUE]
  /\ UNCHANGED <<time_time, jitter, limiter_vars, released, n_ticks, n_records,
                 RESPECT_ROBOTS_TXT, seen_urls, domain_failures, pc, attempt,
                 forbidden_run, pipe_vars, batch_vars,
                 extract_vars, page_vars,
                 robots_vars, search_vars>>

\* safe_request(url), lines 87-105: the rate limiter is consulted, then the
\* circuit breaker either returns None or lets the retry loop start
SafeRequestStart(url, answer) ==
  /\ pc = "idle" /\ n_calls < MaxCalls
  /\ ~is_duplicate(url)
  /\ RESPECT_ROBOTS_TXT => answer[1]
  /\ breaker_open(HostOf(url)) \/ stats.requests_made + MAX_RETRIES <= MaxRequests
  /\ LET domain == HostOf(url)
         crawl_delay == IF RESPECT_ROBOTS_TXT THEN answer[2] ELSE REQUEST_DELAY
     IN /\ wait_if_needed(domain, crawl_delay)
        /\ call' = [NewCall(url) EXCEPT !.robots = RESPECT_ROBOTS_TXT,
                                        !.limiter = TRUE,
                                        !.slept = time_time' - time_time]
        /\ IF breaker_open(domain)
           THEN pc' = "idle" /\ result' = "null"
           ELSE pc' = "attempt" /\ result' = "pending"
  /\ n_calls' = n_calls + 1
  /\ attempt' = 0
  /\ UNCHANGED <<jitter, rl_domain_failures, success_streak, adaptive_multiplier,
                 n_ticks, n_records, RESPECT_ROBOTS_TXT, seen_urls,
                 domain_failures, stats, forbidden_run, pipe_vars, batch_vars,
                 extract_vars, page_vars,
                 robots_vars, search_vars>>

\* one iteration of the retry loop, lines 108-151, with the response it gets
Attempt(response) ==
  /\ pc = "attempt"
  /\ LET url == call.url
         domain == HostOf(url)
         e == handle_response(response, attempt, domain_failures[domain])
         finished == e.stop \/ range_exhausted(attempt)
     IN /\ stats' = [stats EXCEPT
                       !.requests_made = @ + 1,
                       !.successful_scrapes = IF e.stat = "successful_scrapes" THEN @ + 1 ELSE @,
                       !.rate_limited = IF e.stat = "rate_limited" THEN @ + 1 ELSE @,
                       !.forbidden_errors = IF e.stat = "forbidden_errors" THEN @ + 1 ELSE @]
        /\ seen_urls' = IF e.seen THEN seen_urls \cup {url} ELSE seen_urls
        /\ domain_failures' = [domain_failures EXCEPT ![domain] = e.failures]
        /\ CASE e.rl = "success" -> record_success(domain)
             [] e.rl = "failure" -> record_failure(domain)
             [] OTHER -> UNCHANGED <<rl_domain_failures, success_streak,
                                     adaptive_multiplier>>
        /\ time_time' = time_time + e.sleep
        /\ call' = [call EXCEPT
                      !.attempts = @ + 1,
                      !.slept = @ + e.sleep,
                      !.responses = Append(@, response),
                      !.rl_trace = IF e.rl = "none" THEN @
                                   ELSE Append(@, rl_domain_failures'[domain]),
                      !.rl_calls = IF e.rl = "none" THEN @ ELSE Append(@, e.rl)]
        /\ forbidden_run' = [forbidden_run EXCEPT
                               ![domain] = IF response = "403" THEN @ + 1
                                           ELSE IF response = "200" THEN 0 ELSE @]
        /\ pc' = IF finished THEN "idle" ELSE "attempt"
        /\ result' = IF finished THEN e.ret ELSE "pending"
        /\ attempt' = attempt + 1
  /\ UNCHANGED <<jitter, domain_requests, domain_last_request, released,
                 n_ticks, n_records, RESPECT_ROBOTS_TXT, n_calls, pipe_vars, batch_vars,
                 extract_vars, page_vars,
                 robots_vars, search_vars>>

\* ------------------------------ RedditScraper._search_multiple_subreddits

\* the search url of one subreddit, the same for every search term
search_url == "a1"

\* params['q'] of the iteration for the i-th search term
search_params(i) == i

NoSearch == [pc |-> "idle", term |-> 0, params |-> 0, call_no |-> 0,
             responses |-> <<>>]

\* no discovery loop is running
SearchIdle == search = NoSearch

\* the loop over search_terms is entered
SearchInit == search = [NoSearch EXCEPT !.pc = "next"]

\* the loop head: params are built for the next search term and
\* safe_request(search_url, params=params) is entered
SearchRequest ==
  /\ search.pc = "next" /\ pc = "idle"
  /\ search.term < MaxSearchTerms
  /\ search' = [search EXCEPT !.pc = "request", !.term = @ + 1,
                              !.params = search_params(search.term + 1),
                              !.call_no = n_calls]
  /\ UNCHANGED <<time_time, jitter, limiter_vars, released, n_ticks, n_records,
                 fetch_vars, pipe_vars, batch_vars, extract_vars, page_vars,
                 robots_vars>>

\* safe_request starts for search_url; its kwargs play no part in it
SearchSafeRequest ==
  /\ search.pc = "request" /\ n_calls = search.call_no
  /\ \/ SafeRequestDuplicate(search_url)
     \/ \E answer \in RobotsAnswers : SafeRequestBlocked(search_url, answer)
     \/ \E answer \in RobotsAnswers : SafeRequestStart(search_url, answer)

\* safe_request has returned: "if not response: continue", else the posts
\* of the response are read
SearchResponse ==
  /\ search.pc = "request" /\ n_calls > search.call_no /\ pc = "idle"
  /\ search' = [search EXCEPT
                  !.pc = "next",
                  !.responses = Append(@, [params |-> search.params,
                                           response |-> result,
                                           attempts |-> call.attempts])]
  /\ UNCHANGED <<time_time, jitter, limiter_vars, released, n_ticks, n_records,
                 fetch_vars, pipe_vars, batch_vars, extract_vars, page_vars,
                 robots_vars>>

SearchNext ==
  \/ SearchRequest
  \/ SearchSafeRequest
  \/ \E response \in Responses : Attempt(response)
  \/ SearchResponse

\* ---------------------------------------------- PipelineManager and store

\* the keys of extract_topics_from_experience(...)['topics'] for the page's
\* title and content (the taxonomy is fixed, so they depend on the text only)
extract_topics(page) ==
  CASE page = "p1" -> {"t1"}
    [] page = "p2" -> {"t1", "t2"}
    [] page = "p3" -> {"t2"}
    [] OTHER -> {}

ExperienceIds == DOMAIN experiences

\* session.query(InterviewExperience).join(Company).filter(Company.name == c)
company_experiences(company_name) ==
  {i \in ExperienceIds : experiences[i].company = company_name}

\* _get_existing_experience_count
get_existing_experience_count(company_name) ==
  Cardinality(company_experiences(company_name))

\* _is_data_stale: (utcnow - latest scraped_at).days > days_threshold
is_data_stale(company_name) ==
  LET rows == company_experiences(company_name)
  IN IF rows = {} THEN TRUE
     ELSE LET latest == CHOOSE i \in rows :
                          \A j \in rows : experiences[j].scraped_at <= experiences[i].scraped_at
          IN (utcnow - experiences[latest].scraped_at) \div 24 > days_threshold

\* the row with this source_url, 0 if there is none
existing_id(rows, source_url) ==
  IF \E i \in DOMAIN rows : rows[i].source_url = source_url
  THEN CHOOSE i \in DOMAIN rows : rows[i].source_url = source_url
  ELSE 0

\* _store_experience without the lookup of an existing row
store_experience_no_lookup(page, fault) ==
  IF fault
  THEN [experiences |-> experiences, companies |-> companies, ret |-> 0]
  ELSE [experiences |-> Append(experiences,
                               [company |-> PageCompany(page),
                                source_url |-> page,
                                scraped_at |-> utcnow,
                                processed_at |-> NULL]),
        companies |-> companies \cup {PageCompany(page)},
        ret |-> Len(experiences) + 1]

\* _store_experience(record of page): the store after the call and the value
\* returned (0 for None).  A store error, like an insert that the unique
\* source_url column rejects, rolls the unit of work back and returns None.
store_experience(page, fault) ==
  LET existing == existing_id(experiences, page)
  IN IF fault
     THEN [experiences |-> experiences, companies |-> companies, ret |-> 0]
     ELSE IF existing # 0
     THEN [experiences |-> experiences, companies |-> companies, ret |-> existing]
     ELSE [experiences |-> Append(experiences,
                                  [company |-> PageCompany(page),
                                   source_url |-> page,
                                   scraped_at |-> utcnow,
                                   processed_at |-> NULL]),
           companies |-> companies \cup {PageCompany(page)},
           ret |-> Len(experiences) + 1]

\* _is_experience_recently_analyzed
is_experience_recently_analyzed(experience_id) ==
  /\ experience_id \in ExperienceIds
  /\ experiences[experience_id].processed_at # NULL
  /\ utcnow - experiences[experience_id].processed_at < hours_threshold

\* _store_topic_mentions: one unit of work; a store error rolls it back and
\* is logged, not raised
store_topic_mentions(experience_id, found, fault) ==
  IF fault
  THEN [topics |-> topics, mentions |-> mentions, experiences |-> experiences]
  ELSE [topics |-> topics \cup found,
        mentions |-> [k \in DOMAIN mentions |->
                        IF k[1] = experience_id /\ k[2] \in found
                        THEN mentions[k] + 1 ELSE mentions[k]],
        experiences |-> IF experience_id \in ExperienceIds
                        THEN [experiences EXCEPT ![experience_id].processed_at = utcnow]
                        ELSE experiences]

\* _get_experiences_with_topic_data: the processed experiences of the company
experiences_with_topic_data(company_name) ==
  {i \in company_experiences(company_name) : experiences[i].processed_at # NULL}

\* generate_comprehensive_insights: the keys of topic_insights.detailed_topics,
\* and whether the result has topic_insights at all (it has none for fewer
\* than min_sample_size experiences)
generate_comprehensive_insights(rows) ==
  IF Cardinality(rows) < min_sample_size
  THEN [has_topics |-> FALSE, detailed_topics |-> {}]
  ELSE [has_topics |-> TRUE,
        detailed_topics |-> UNION {extract_topics(experiences[i].source_url) : i \in rows}]

\* the sum of a function's values over a set of arguments
RECURSIVE sum_over(_, _)
sum_over(f, S) ==
  IF S = {} THEN 0
  ELSE LET x == CHOOSE y \in S : TRUE IN f[x] + sum_over(f, S \ {x})

\* a topic's statistics taken from the stored mention rows of the experiences
topic_insight_from_mentions(rows, topic) ==
  [weighted_frequency |->
     (100 * sum_over([i \in rows |-> mentions[<<i, topic>>]], rows))
       \div Cardinality(rows),
   sample_size |-> Cardinality(rows)]

\* _generate_topic_insights for one topic: the topics are extracted again
\* from each experience's content; every experience has the time_weight
\* stored with it (1 here) and the topic has frequency_percent 1 where it
\* occurs, so weighted_frequency = sum(frequencies) / total_weight * 100.
\* sample_size is len(experiences).
topic_insight(rows, topic) ==
  [weighted_frequency |->
     (100 * Cardinality({i \in rows :
                          topic \in extract_topics(experiences[i].source_url)}))
       \div Cardinality(rows),
   sample_size |-> Cardinality(rows)]

NoInsight == [weighted_frequency |-> 0, sample_size |-> 0, analysis_date |-> NULL]

\* _store_company_insights: the fields of the company's rows after the call
store_insight_rows(company_name, rows, new_insights, fault) ==
  IF fault \/ company_name \notin companies
  THEN insight_rows
  ELSE [k \in DOMAIN insight_rows |->
          IF k[1] # company_name THEN insight_rows[k]
          ELSE IF new_insights.has_topics /\ k[2] \in new_insights.detailed_topics
                  /\ k[2] \in topics
               THEN LET v == topic_insight(rows, k[2])
                    IN [weighted_frequency |-> v.weighted_frequency,
                        sample_size |-> v.sample_size,
                        analysis_date |-> utcnow]
               ELSE NoInsight]

\* _store_company_insights without the delete of the old rows
store_company_insights_no_delete(company_name, new_insights, fault) ==
  IF fault \/ company_name \notin companies
  THEN insights
  ELSE [k \in DOMAIN insights |->
          IF k[1] # company_name THEN insights[k]
          ELSE IF new_insights.has_topics /\ k[2] \in new_insights.detailed_topics
                  /\ k[2] \in topics
               THEN insights[k] + 1 ELSE insights[k]]

\* _store_company_insights: delete the company's rows, insert one row for
\* every detailed topic that has a Topic row, commit; a store error rolls the
\* whole unit of work back
store_company_insights(company_name, new_insights, fault) ==
  IF fault \/ company_name \notin companies
  THEN insights
  ELSE [k \in DOMAIN insights |->
          IF k[1] # company_name THEN insights[k]
          ELSE IF new_insights.has_topics /\ k[2] \in new_insights.detailed_topics
                  /\ k[2] \in topics
               THEN 1 ELSE 0]

NoRun == [pc |-> "idle", company |-> "none", quota |-> 0,
          scraping_performed |-> FALSE, platform |-> 0, yielded |-> {},
          newly_scraped |-> 0, existing |-> 0, total |-> 0,
          todo |-> <<>>, due |-> {}, analyzed |-> 0, fault |-> FALSE,
          status |-> "none",
          platform_results |-> [p \in 1..NumScrapers |-> "none"],
          adapter_faults |-> 0,
          prev_company |-> "none", prev_store_error |-> FALSE,
          inserted |-> 0, store_error |-> FALSE]

\* the ids of a set of rows as the list the query returns (in id order)
RECURSIVE id_list(_)
id_list(ids) ==
  IF ids = {} THEN <<>>
  ELSE LET m == CHOOSE i \in ids : \A j \in ids : i <= j
       IN <<m>> \o id_list(ids \ {m})

PipeInit ==
  /\ utcnow = 0
  /\ companies = {}
  /\ experiences = <<>>
  /\ topics = {}
  /\ mentions = [k \in (1..(MaxStoreCalls + 1)) \X TopicNames |-> 0]
  /\ insights = [k \in CompanyNames \X TopicNames |-> 0]
  /\ insight_rows = [k \in CompanyNames \X TopicNames |-> NoInsight]
  /\ run = NoRun
  /\ store_call = [page |-> "none", ret |-> 0, fault |-> FALSE, existed |-> FALSE]
  /\ insight_call = [company |-> "none", result |-> {}, fault |-> FALSE]
  /\ n_runs = 0 /\ n_store = 0 /\ n_insight = 0 /\ n_faults = 0 /\ n_hours = 0

\* the stage after collection: no_data ends the run, else the analysis starts
\* with the list of the company's experiences
after_collection(r, rows) ==
  LET ids == {i \in DOMAIN rows : rows[i].company = r.company}
  IN IF ids = {}
     THEN [r EXCEPT !.pc = "idle", !.total = 0, !.status = "no_data"]
     ELSE [r EXCEPT !.pc = "analysis", !.total = Cardinality(ids),
                    !.todo = id_list(ids),
                    !.due = {i \in ids : ~is_experience_recently_analyzed(i)}]

\* run_complete_analysis(company, max_experiences, force_refresh) up to the
\* should_scrape decision of _run_data_collection_stage.  A store error in
\* the count query (count_fault) is caught by _get_existing_experience_count,
\* which then returns 0 (for a company without rows that is the count, so
\* the error is drawn only where it shows).
RunStart(company_name, max_experiences, force_refresh) ==
  /\ run.pc = "idle" /\ n_runs < MaxRuns
  /\ n_runs' = n_runs + 1
  /\ \E count_fault \in BOOLEAN :
       /\ count_fault => /\ n_faults < MaxFaults
                          /\ get_existing_experience_count(company_name) > 0
       /\ n_faults' = IF count_fault THEN n_faults + 1 ELSE n_faults
       /\ LET existing_count == IF count_fault THEN 0
                                ELSE get_existing_experience_count(company_name)
              should_scrape == \/ force_refresh
                               \/ existing_count < max_experiences
                               \/ is_data_stale(company_name)
              r == [NoRun EXCEPT !.company = company_name,
                                 !.prev_company = run.company,
                                 !.prev_store_error = run.store_error,
                                 !.existing = existing_count,
                                 !.store_error = count_fault,
                                 !.status = "running"]
          IN run' = IF should_scrape
                    THEN [r EXCEPT !.pc = "collection", !.platform = 1,
                                   !.scraping_performed = TRUE,
                                   !.quota = max_experiences \div NumScrapers]
                    ELSE after_collection(r, experiences)
  /\ UNCHANGED <<utcnow, companies, experiences, topics, mentions, insights,
                 insight_rows,
                 store_call, insight_call, n_store, n_insight, n_hours>>

\* the current adapter yields one more record of its site (a url once per
\* run, at most the quota), which is stored
CollectRecord(page, fault) ==
  /\ run.pc = "collection"
  /\ PagePlatform(page) = run.platform /\ page \notin run.yielded
  /\ Cardinality(run.yielded) < run.quota
  /\ n_store < MaxStoreCalls
  /\ fault => n_faults < MaxFaults
  /\ LET st == store_experience(page, fault)
     IN /\ experiences' = st.experiences
        /\ companies' = st.companies
        /\ store_call' = [page |-> page, ret |-> st.ret, fault |-> fault,
                          existed |-> existing_id(experiences, page) # 0]
        /\ run' = [run EXCEPT !.yielded = @ \cup {page},
                              !.newly_scraped = IF st.ret # 0 THEN @ + 1 ELSE @,
                              !.inserted = @ + Len(st.experiences) - Len(experiences),
                              !.store_error = @ \/ fault]
  /\ n_store' = n_store + 1
  /\ n_faults' = IF fault THEN n_faults + 1 ELSE n_faults
  /\ UNCHANGED <<utcnow, topics, mentions, insights, insight_rows, insight_call, n_runs,
                 n_insight, n_hours>>

\* the current adapter is exhausted: the next one runs, or the stage ends
PlatformDone ==
  /\ run.pc = "collection"
  /\ LET r == [run EXCEPT !.platform_results[run.platform] = "ok"]
     IN run' = IF run.platform < NumScrapers
               THEN [r EXCEPT !.platform = @ + 1, !.yielded = {}]
               ELSE after_collection([r EXCEPT !.platform = 0, !.yielded = {},
                                               !.quota = 0],
                                     experiences)
  /\ UNCHANGED <<utcnow, companies, experiences, topics, mentions, insights,
                 insight_rows,
                 store_call, insight_call, n_runs, n_store, n_insight, n_faults,
                 n_hours>>

\* an adapter exception that is not caught in the platform loop: it leaves
\* _run_data_collection_stage and run_complete_analysis reports the error
adapter_error_aborts(r, rows) ==
  [r EXCEPT !.platform_results[r.platform] = "error",
            !.adapter_faults = @ + 1,
            !.platform = 0, !.yielded = {}, !.quota = 0,
            !.pc = "idle", !.status = "error"]

\* the except branch of the platform loop: the error is put in
\* platform_results[platform_name] and the loop goes on with the next adapter
adapter_error(r, rows) ==
  LET e == [r EXCEPT !.platform_results[r.platform] = "error",
                     !.adapter_faults = @ + 1]
  IN IF r.platform < NumScrapers
     THEN [e EXCEPT !.platform = @ + 1, !.yielded = {}]
     ELSE after_collection([e EXCEPT !.platform = 0, !.yielded = {}, !.quota = 0],
                           rows)

\* the current adapter raises in discover_experience_urls or
\* extract_experience_data.  The records of an adapter are stored only after
\* list(scraper.scrape_company_experiences(...)) has returned, so an adapter
\* that raises has stored nothing in this run.
AdapterFails ==
  /\ run.pc = "collection"
  /\ run.yielded = {}
  /\ n_faults < MaxFaults
  /\ n_faults' = n_faults + 1
  /\ run' = adapter_error(run, experiences)
  /\ UNCHANGED <<utcnow, companies, experiences, topics, mentions, insights,
                 insight_rows,
                 store_call, insight_call, n_runs, n_store, n_insight,
                 n_hours>>

\* analysis_found: if topic_analysis['topics'] -- the mentions are stored and
\* the experience is marked processed only for a non-empty topic dict
stores_mentions(found) == found # {}

\* one iteration of the loop of _run_analysis_stage; after the last one the
\* insights stage is next
AnalyzeExperience(fault) ==
  /\ run.pc = "analysis" /\ run.todo # <<>>
  /\ fault => n_faults < MaxFaults
  /\ LET id == Head(run.todo)
         found == extract_topics(experiences[id].source_url)
         skip == is_experience_recently_analyzed(id)
         writes == ~skip /\ stores_mentions(found)
         st == IF writes THEN store_topic_mentions(id, found, fault)
               ELSE [topics |-> topics, mentions |-> mentions,
                     experiences |-> experiences]
     IN /\ fault => writes
        /\ topics' = st.topics
        /\ mentions' = st.mentions
        /\ experiences' = st.experiences
        /\ run' = [run EXCEPT
                     !.todo = Tail(@),
                     !.analyzed = IF skip THEN @ ELSE @ + 1,
                     !.fault = @ \/ fault,
                     !.store_error = @ \/ fault,
                     !.pc = IF Tail(run.todo) = <<>> THEN "insights" ELSE "analysis"]
  /\ n_faults' = IF fault THEN n_faults + 1 ELSE n_faults
  /\ UNCHANGED <<utcnow, companies, insights, insight_rows, store_call, insight_call, n_runs,
                 n_store, n_insight, n_hours>>

\* _run_insights_generation_stage and the end of run_complete_analysis
GenerateInsights(fault) ==
  /\ run.pc = "insights"
  /\ fault => n_faults < MaxFaults
  /\ LET rows == experiences_with_topic_data(run.company)
         generated == generate_comprehensive_insights(rows)
     IN IF rows = {}
        THEN /\ ~fault
             /\ UNCHANGED <<insights, insight_rows, insight_call, n_insight>>
        ELSE /\ insights' = store_company_insights(run.company, generated, fault)
             /\ insight_rows' = store_insight_rows(run.company, rows, generated, fault)
             /\ insight_call' = [company |-> run.company,
                                 result |-> generated.detailed_topics,
                                 fault |-> fault]
             /\ n_insight' = n_insight + 1
  /\ run' = [run EXCEPT !.pc = "idle", !.status = "success",
                        !.store_error = @ \/ fault]
  /\ n_faults' = IF fault THEN n_faults + 1 ELSE n_faults
  /\ UNCHANGED <<utcnow, companies, experiences, topics, mentions, store_call,
                 n_runs, n_store, n_hours>>

\* time passes between two runs
HoursPass ==
  /\ run.pc = "idle" /\ n_runs >= 1
  /\ n_hours < MaxHourSteps
  /\ n_hours' = n_hours + 1
  /\ utcnow' = utcnow + HourStep
  /\ UNCHANGED <<companies, experiences, topics, mentions, insights, insight_rows, run,
                 store_call, insight_call, n_runs, n_store, n_insight, n_faults>>

\* ------------------------------------------- the company extractor

\* A text is a sequence of characters: two lower-case letters, an upper-case
\* letter and the blank (the only character that is not a word character).
Chars == {"a", "b", "A", " "}
Texts(n) == UNION {[1..k -> Chars] : k \in 0..n}
is_word_char(c) == c # " "
\* str.lower() of one character, and of a text
lower_char(c) == CASE c = "A" -> "a" [] c = "B" -> "b" [] OTHER -> c
lower(text) == [i \in DOMAIN text |-> lower_char(text[i])]

\* the characters of a company name
name_chars(name) ==
  CASE name = "Ab" -> <<"A", "b">>
    [] name = "B" -> <<"B">>
    [] OTHER -> <<"A">>

\* company_patterns in table (priority) order.  Like PhonePe before
\* Flipkart: the first entry has a one-word and a two-word pattern, and a
\* text can match the patterns of both entries.
company_patterns ==
  << [name |-> "Ab", patterns |-> << <<"a", "b">>, <<"a", " ", "b">> >>],
     [name |-> "B",  patterns |-> << <<"b">> >>] >>

\* what the callers pass as target_company: nothing, a table name, or a name
\* that has no table entry
Targets == {"None", "Ab", "B", "A"}

\* "pattern in text": the pattern occurs at some position of the text
occurs_in(pattern, text) ==
  \E i \in 1..(Len(text) - Len(pattern) + 1) :
    SubSeq(text, i, i + Len(pattern) - 1) = pattern

\* \b at the position between text[k] and text[k + 1]: exactly one side is a
\* word character (beyond the ends there is none)
word_boundary(text, k) ==
  LET left == k >= 1 /\ is_word_char(text[k])
      right == k + 1 <= Len(text) /\ is_word_char(text[k + 1])
  IN left # right

\* re.search(r'\b' + re.escape(pattern) + r'\b', text)
re_search(pattern, text) ==
  \E i \in 1..(Len(text) - Len(pattern) + 1) :
    /\ SubSeq(text, i, i + Len(pattern) - 1) = pattern
    /\ word_boundary(text, i - 1)
    /\ word_boundary(text, i + Len(pattern) - 1)

\* _matches_company_patterns
matches_company_patterns(text, patterns) ==
  \E j \in DOMAIN patterns : re_search(patterns[j], text)

\* self.company_patterns.get(target_company, [target_lower])
patterns_for(target_company) ==
  IF \E i \in DOMAIN company_patterns : company_patterns[i].name = target_company
  THEN LET i == CHOOSE i \in DOMAIN company_patterns :
                  company_patterns[i].name = target_company
       IN company_patterns[i].patterns
  ELSE << lower(name_chars(target_company)) >>

\* _check_target_company_first
check_target_company_first(title, content, target_company) ==
  LET text == lower(title \o <<" ">> \o content)
      target_lower == lower(name_chars(target_company))
  IN IF occurs_in(target_lower, text) THEN target_company
     ELSE IF matches_company_patterns(text, patterns_for(target_company))
     THEN target_company
     ELSE "Unknown"

\* a table scan in which a later entry overrides an earlier one
scan_table_last(text) ==
  LET hits == {i \in DOMAIN company_patterns :
                 matches_company_patterns(text, company_patterns[i].patterns)}
  IN IF hits = {} THEN "Unknown"
     ELSE company_patterns[CHOOSE i \in hits : \A j \in hits : j <= i].name

\* the loop over self.company_patterns.items(): the first entry that matches
\* is returned
scan_table(text) ==
  LET hits == {i \in DOMAIN company_patterns :
                 matches_company_patterns(text, company_patterns[i].patterns)}
  IN IF hits = {} THEN "Unknown"
     ELSE company_patterns[CHOOSE i \in hits : \A j \in hits : i <= j].name

\* _extract_from_url_patterns: its loop only skips, it returns "Unknown"
extract_from_url_patterns(title, content) == "Unknown"

\* extract_company_from_content
extract_company_from_content(title, content, target_company) ==
  LET extracted == IF target_company # "None"
                   THEN check_target_company_first(title, content, target_company)
                   ELSE "Unknown"
      scanned == scan_table(lower(title \o <<" ">> \o content))
  IN IF extracted # "Unknown" THEN extracted
     ELSE IF scanned # "Unknown" THEN scanned
     ELSE extract_from_url_patterns(title, content)

NoExtraction == [title |-> <<>>, content |-> <<>>, target_company |-> "None",
                 result |-> "none"]

\* no extraction call is in progress
ExtractIdle == extraction = NoExtraction

\* an adapter is about to call the extractor on a page's title and content
ExtractInit ==
  extraction \in {[title |-> t, content |-> c, target_company |-> target,
                   result |-> "none"] :
                    t \in Texts(MaxTitle), c \in Texts(MaxContent), target \in Targets}

\* the call
Extract ==
  /\ extraction.result = "none"
  /\ extraction' = [extraction EXCEPT !.result =
                      extract_company_from_content(extraction.title,
                                                   extraction.content,
                                                   extraction.target_company)]
  /\ UNCHANGED <<time_time, jitter, limiter_vars, released, n_ticks, n_records,
                 fetch_vars, pipe_vars, batch_vars, page_vars, robots_vars, search_vars>>

\* ------------------------------------------- one page through an adapter

\* the adapters by their position in self.scrapers
geeksforgeeks == 1
leetcode == 2
glassdoor == 3
reddit == 4

\* the shortest content an adapter accepts: len(content.strip()) < 100 is
\* rejected by three adapters, < 50 by the Glassdoor adapter
min_content_length(platform) ==
  IF platform = glassdoor THEN 50 ELSE 100

\* the shortest title: _extract_title of the GeeksforGeeks adapter wants more
\* than 10 characters, the others a non-empty (stripped) title
min_title_length(platform) ==
  IF platform = geeksforgeeks THEN 11 ELSE 1

\* A page is given by the lengths of its stripped title and content, by the
\* date its date element parses to (its age against utcnow in hours, negative
\* for a date in the future, and whether the parsed datetime carries a
\* time zone: dateutil gives one for a date text with an offset, the Reddit
\* adapter's utcfromtimestamp never does) and by whether its content hash is
\* in content_hashes already.
TitleLengths == {0, 10, 11}
ContentLengths == {0, 49, 50, 99, 100}
AgeHours == {0 - MaxFutureDays * 24, -1, 0, 30 * 24, MaxAgeDays * 24}

\* weights are fixed-point numbers in units of 1/10000
weight_one == 10000
\* max(weight, 0.01)
min_weight == 100
\* the adapters' own floor, max(weight, 0.1)
adapter_min_weight == 1000
\* exp(-decay_lambda / 30.44), the decay of one day, for decay_lambda = 0.08
day_decay == 9974

\* day_decay to the power n, rounded down after every product
RECURSIVE decay_power(_)
decay_power(n) ==
  IF n = 0 THEN weight_one
  ELSE IF n % 2 = 0
  THEN LET h == decay_power(n \div 2) IN (h * h) \div weight_one
  ELSE (day_decay * decay_power(n - 1)) \div weight_one

\* math.exp(-decay_lambda * days / 30.44); for a negative number of days the
\* exponent is positive
exp_decay(days) ==
  IF days >= 0 THEN decay_power(days)
  ELSE (weight_one * weight_one) \div decay_power(0 - days)

\* timedelta.days: whole days, rounded towards minus infinity
timedelta_days(hours) ==
  IF hours >= 0 THEN hours \div 24 ELSE 0 - ((23 - hours) \div 24)

\* ExponentialDecayCalculator.calculate_weight for a naive datetime
calculate_weight(age_hours) ==
  Max(exp_decay(timedelta_days(age_hours)), min_weight)

\* _calculate_time_weight of the LeetCode and Reddit adapters
adapter_time_weight(age_hours) ==
  Max(exp_decay(timedelta_days(age_hours)), adapter_min_weight)

NoRecord == [title_len |-> 0, content_len |-> 0, time_weight |-> NULL]

\* extract_experience_data of the adapter for a fetched page: NoRecord for
\* None, else the record.  Subtracting a datetime with a time zone from
\* utcnow() raises TypeError; inside extract_experience_data it is caught and
\* None is returned.
extract_experience_data(platform, page) ==
  IF page.title_len < min_title_length(platform) THEN NoRecord
  ELSE IF page.content_len < min_content_length(platform) THEN NoRecord
  ELSE IF platform \in {leetcode, reddit}
  THEN IF page.aware THEN NoRecord
       ELSE [title_len |-> page.title_len, content_len |-> page.content_len,
             time_weight |-> adapter_time_weight(page.age_hours)]
  ELSE [title_len |-> page.title_len, content_len |-> page.content_len,
        time_weight |-> NULL]

NoScrape == [platform |-> 0, title_len |-> 0, content_len |-> 0, aware |-> FALSE,
             age_hours |-> 0, dup |-> FALSE, pc |-> "idle",
             record |-> NoRecord, row |-> NoRecord]

\* no page is being processed
ScrapeIdle == scrape = NoScrape

\* safe_request has returned the page of the next url to an adapter
ScrapeInit ==
  /\ scrape \in {[NoScrape EXCEPT !.platform = p, !.title_len = t,
                                  !.content_len = c, !.aware = a,
                                  !.age_hours = h, !.dup = d, !.pc = "page"] :
                   p \in 1..NumScrapers, t \in TitleLengths, c \in ContentLengths,
                   a \in BOOLEAN, h \in AgeHours, d \in BOOLEAN}
  /\ scrape.platform = reddit => ~scrape.aware

\* experience_data = self.extract_experience_data(url, target_company=company)
ExtractExperienceData ==
  /\ scrape.pc = "page"
  /\ LET data == extract_experience_data(scrape.platform, scrape)
     IN scrape' = IF data = NoRecord THEN [scrape EXCEPT !.pc = "null"]
                  ELSE [scrape EXCEPT !.pc = "extracted", !.record = data]
  /\ UNCHANGED <<time_time, jitter, limiter_vars, released, n_ticks, n_records,
                 fetch_vars, pipe_vars, batch_vars, extract_vars, robots_vars, search_vars>>

\* the rest of the loop body of scrape_company_experiences: a duplicate
\* content is counted and dropped; else the record gets its time_weight and
\* is yielded.  calculate_weight raises TypeError for a datetime with a time
\* zone, which leaves the generator.
YieldExperience ==
  /\ scrape.pc = "extracted"
  /\ scrape' = IF scrape.dup THEN [scrape EXCEPT !.pc = "duplicate"]
               ELSE IF scrape.aware THEN [scrape EXCEPT !.pc = "raised"]
               ELSE [scrape EXCEPT !.pc = "yielded",
                       !.record.time_weight = calculate_weight(scrape.age_hours)]
  /\ UNCHANGED <<time_time, jitter, limiter_vars, released, n_ticks, n_records,
                 fetch_vars, pipe_vars, batch_vars, extract_vars, robots_vars, search_vars>>

\* _store_experience(exp_data) of a yielded record with a new source_url:
\* title, content and time_weight are stored as they are in the record
StoreYielded ==
  /\ scrape.pc = "yielded"
  /\ scrape' = [scrape EXCEPT !.pc = "stored", !.row = scrape.record]
  /\ UNCHANGED <<time_time, jitter, limiter_vars, released, n_ticks, n_records,
                 fetch_vars, pipe_vars, batch_vars, extract_vars, robots_vars, search_vars>>

ScrapeNext == ExtractExperienceData \/ YieldExperience \/ StoreYielded

\* ------------------------------------------- RobotsTxtChecker

\* self.cache_duration = 3600, in ms
cache_duration == 3600000

\* an entry of self.cache: no key, None, or a RobotFileParser with what it
\* answers for the adapters' urls and user agent (crawl_delay 0 for None)
NoEntry == [kind |-> "absent", allowed |-> TRUE, crawl_delay |-> 0]
NullEntry == [kind |-> "null", allowed |-> TRUE, crawl_delay |-> 0]
Policies == {[kind |-> "policy", allowed |-> a, crawl_delay |-> c] :
               a \in BOOLEAN, c \in {0, 1, 5}}

\* what the host answers to requests.get: status 200 with a body of so many
\* lines (response.text.split gives at least one), another status, or no
\* answer (a RequestException)
RobotsResponses ==
  {[status |-> "200", lines |-> n] : n \in 1..MaxRobotsLines}
    \cup {[status |-> "404", lines |-> 0], [status |-> "exc", lines |-> 0]}

NoRobotsCall == [domain |-> "none", loaded |-> FALSE, fetches |-> 0,
                 answer |-> <<TRUE, 0>>]

\* RobotsTxtChecker.__init__
RobotsInit ==
  /\ robots_cache = [h \in Hosts |-> NoEntry]
  /\ robots_cache_ttl = [h \in Hosts |-> NoRequest]
  /\ robots_call = NoRobotsCall
  /\ n_robots = 0

\* _load_robots_txt: the entry cached for the domain and the number of
\* fetches of robots.txt made.  For status 200 the parser is told
\* rp.read() once for every line of the body, and RobotFileParser.read
\* fetches the url itself; policy is what the parser holds after the last
\* read.  A read that fails (read_fails) raises, and None is cached.
load_robots_txt(response, policy, read_fails) ==
  IF response.status = "200"
  THEN IF read_fails THEN [entry |-> NullEntry, fetches |-> 2]
       ELSE [entry |-> policy, fetches |-> 1 + response.lines]
  ELSE IF response.status = "exc" THEN [entry |-> NullEntry, fetches |-> 1]
  ELSE [entry |-> NullEntry, fetches |-> 1]

\* the cached entry is used: domain in self.cache and
\* time.time() - self.cache_ttl.get(domain, 0) < self.cache_duration
cache_valid(domain) ==
  /\ robots_cache[domain].kind # "absent"
  /\ time_time - robots_cache_ttl[domain] < cache_duration

\* the return value of can_fetch for the entry rp
robots_answer(rp) ==
  IF rp.kind # "policy" THEN <<TRUE, 5>>
  ELSE <<rp.allowed, Max(IF rp.crawl_delay = 0 THEN 2 ELSE rp.crawl_delay, 2)>>

\* can_fetch(url) for a url of the domain
CanFetch(domain, response, policy, read_fails) ==
  /\ n_robots < MaxRobotsCalls
  /\ n_robots' = n_robots + 1
  /\ IF cache_valid(domain)
     THEN /\ robots_call' = [domain |-> domain, loaded |-> FALSE, fetches |-> 0,
                             answer |-> robots_answer(robots_cache[domain])]
          /\ UNCHANGED <<robots_cache, robots_cache_ttl>>
     ELSE LET l == load_robots_txt(response, policy, read_fails)
          IN /\ robots_cache' = [robots_cache EXCEPT ![domain] = l.entry]
             /\ robots_cache_ttl' = [robots_cache_ttl EXCEPT ![domain] = time_time]
             /\ robots_call' = [domain |-> domain, loaded |-> TRUE,
                                fetches |-> l.fetches,
                                answer |-> robots_answer(l.entry)]
  /\ UNCHANGED <<time_time, jitter, limiter_vars, released, n_ticks, n_records,
                 fetch_vars, pipe_vars, batch_vars, extract_vars, page_vars,
                 search_vars>>

\* time passes between two can_fetch calls
RobotsClock ==
  /\ n_robots > 0
  /\ n_ticks < MaxRobotsTicks
  /\ n_ticks' = n_ticks + 1
  /\ time_time' = time_time + RobotsStep
  /\ UNCHANGED <<jitter, limiter_vars, released, n_records, fetch_vars, pipe_vars,
                 batch_vars, extract_vars, page_vars, robots_vars, search_vars>>

RobotsNext ==
  \/ \E domain \in Hosts, response \in RobotsResponses, policy \in Policies,
        read_fails \in BOOLEAN :
       CanFetch(domain, response, policy, read_fails)
  \/ RobotsClock

\* ------------------------------------------- run_batch_analysis

\* the pool threads of ThreadPoolExecutor(max_workers=2)
Workers == 1..max_workers
\* the companies lists a caller passes (any list, repeated names included)
BatchLists == UNION {[1..n -> CompanyNames] : n \in 0..MaxBatch}
\* how a future can end: with the dict its call returned (named by the
\* dict's status), or "raised" with the exception that left the call
Outcomes == {"success", "no_data", "error", "raised"}
\* what happens in a run_complete_analysis call: all stages complete, the
\* collection stage finds no experience, or a stage raises an exception
RunEvents == {"completed", "no_data", "stage_error"}

\* run_complete_analysis without its try / except: the exception of a stage
\* leaves the call
run_status_unguarded(event) ==
  CASE event = "stage_error" -> "raised"
    [] event = "no_data" -> "no_data"
    [] OTHER -> "success"

\* how a run_complete_analysis call ends: results['status'] starts as
\* 'success', the no_data return sets 'no_data', and the except branch of
\* the try around all stages sets 'error'; the statements outside the try
\* (logging, building the dict) raise nothing
run_status(event) ==
  CASE event = "stage_error" -> "error"
    [] event = "no_data" -> "no_data"
    [] OTHER -> "success"

\* summary_stats as computed after the loop: it stays {} when no result has
\* status 'success'
summary_stats(b) ==
  LET successful_results == {i \in DOMAIN b.companies_processed :
                               b.companies_processed[i].status = "success"}
      keys == IF successful_results # {}
              THEN {"successful_companies", "failed_companies"}
              ELSE {}
  IN [k \in keys |-> IF k = "successful_companies"
                     THEN Cardinality(successful_results)
                     ELSE Len(b.errors)]
\* the host the adapters shared by the workers send their requests to
SharedHost == "A"

FreeWorker == [pc |-> "free", future |-> 0, op |-> "none", snap |-> 0]

BatchInit ==
  /\ future_to_company = <<>>
  /\ future_state = <<>>
  /\ collected = {}
  /\ batch_results = [companies_processed |-> <<>>, errors |-> <<>>,
                      summary_stats |-> [k \in {} |-> 0]]
  /\ batch_pc = "idle"
  /\ worker = [w \in Workers |-> FreeWorker]
  /\ limiter_log = <<>>

\* the body of the as_completed loop keeping only the results with status
\* 'success'
collect_success_only(b, company, state) ==
  IF state = "raised"
  THEN [results |-> [b EXCEPT !.errors = Append(@, company)], aborted |-> FALSE]
  ELSE IF state = "success"
  THEN [results |-> [b EXCEPT !.companies_processed =
                                 Append(@, [company |-> company, status |-> state])],
        aborted |-> FALSE]
  ELSE [results |-> b, aborted |-> FALSE]

\* the body of the as_completed loop for one completed future: future.result()
\* gives the dict, which is appended to companies_processed, or raises, and
\* the except branch appends to errors; neither leaves the loop
collect(b, company, state) ==
  IF state = "raised"
  THEN [results |-> [b EXCEPT !.errors = Append(@, company)], aborted |-> FALSE]
  ELSE [results |-> [b EXCEPT !.companies_processed =
                                 Append(@, [company |-> company, status |-> state])],
        aborted |-> FALSE]

\* run_batch_analysis(companies): one future is submitted per list element
BatchSubmit(company_list) ==
  /\ batch_pc = "idle"
  /\ future_to_company' = company_list
  /\ future_state' = [i \in DOMAIN company_list |-> "pending"]
  /\ batch_pc' = "waiting"
  /\ UNCHANGED <<collected, batch_results, worker, limiter_log>>
  /\ UNCHANGED <<time_time, jitter, limiter_vars, released, n_ticks, n_records,
                 fetch_vars, pipe_vars, extract_vars, page_vars,
                 robots_vars, search_vars>>

\* a free pool thread takes the oldest pending future and starts
\* run_complete_analysis for its company
WorkerTake(w) ==
  /\ worker[w].pc = "free"
  /\ \E i \in DOMAIN future_state :
       /\ future_state[i] = "pending"
       /\ \A j \in DOMAIN future_state : future_state[j] = "pending" => i <= j
       /\ future_state' = [future_state EXCEPT ![i] = "running"]
       /\ worker' = [worker EXCEPT ![w] = [FreeWorker EXCEPT !.pc = "run", !.future = i]]
  /\ UNCHANGED <<future_to_company, collected, batch_results, batch_pc, limiter_log>>
  /\ UNCHANGED <<time_time, jitter, limiter_vars, released, n_ticks, n_records,
                 fetch_vars, pipe_vars, extract_vars, page_vars,
                 robots_vars, search_vars>>

\* An adapter of the worker's run reports a response to the limiter the two
\* workers share.  No lock guards the limiter, so another thread can run
\* between the statements of record_failure / record_success.  This step is
\* the call up to the read of its first read-modify-write:
\*   record_failure: the read of domain_failures[domain] (+= 1)
\*   record_success: domain_failures[domain] = 0 and the read of
\*                   success_streak[domain] (+= 1)
LimiterBegin(w, op) ==
  /\ worker[w].pc = "run"
  /\ Len(limiter_log) < MaxLimiterCalls
  /\ limiter_log' = Append(limiter_log, op)
  /\ IF op = "failure"
     THEN /\ worker' = [worker EXCEPT ![w].pc = "mid", ![w].op = op,
                                      ![w].snap = rl_domain_failures[SharedHost]]
          /\ UNCHANGED rl_domain_failures
     ELSE /\ worker' = [worker EXCEPT ![w].pc = "mid", ![w].op = op,
                                      ![w].snap = success_streak[SharedHost]]
          /\ rl_domain_failures' = [rl_domain_failures EXCEPT ![SharedHost] = 0]
  /\ UNCHANGED <<future_to_company, future_state, collected, batch_results, batch_pc>>
  /\ UNCHANGED <<time_time, jitter, domain_requests, domain_last_request,
                 success_streak, adaptive_multiplier, released, n_ticks,
                 n_records, fetch_vars, pipe_vars, extract_vars, page_vars,
                 robots_vars, search_vars>>

\* the rest of the call: the write of the value computed from what was read,
\* and the statements after it
LimiterEnd(w) ==
  /\ worker[w].pc = "mid"
  /\ worker' = [worker EXCEPT ![w].pc = "run", ![w].op = "none", ![w].snap = 0]
  /\ IF worker[w].op = "failure"
     THEN LET u == failure_update(worker[w].snap, success_streak[SharedHost],
                                  adaptive_multiplier[SharedHost])
          IN /\ rl_domain_failures' = [rl_domain_failures EXCEPT ![SharedHost] = u.f]
             /\ success_streak' = [success_streak EXCEPT ![SharedHost] = u.s]
             /\ adaptive_multiplier' = [adaptive_multiplier EXCEPT ![SharedHost] = u.m]
     ELSE LET u == success_update(rl_domain_failures[SharedHost], worker[w].snap,
                                  adaptive_multiplier[SharedHost])
          IN /\ success_streak' = [success_streak EXCEPT ![SharedHost] = u.s]
             /\ adaptive_multiplier' = [adaptive_multiplier EXCEPT ![SharedHost] = u.m]
             /\ UNCHANGED rl_domain_failures
  /\ UNCHANGED <<future_to_company, future_state, collected, batch_results,
                 batch_pc, limiter_log>>
  /\ UNCHANGED <<time_time, jitter, domain_requests, domain_last_request,
                 released, n_ticks, n_records, fetch_vars, pipe_vars, extract_vars, page_vars,
                 robots_vars, search_vars>>

\* run_complete_analysis ends in the worker: it returns its results dict
\* (status success, no_data or error), which becomes the future's result
WorkerFinish(w, event) ==
  /\ worker[w].pc = "run"
  /\ future_state' = [future_state EXCEPT ![worker[w].future] = run_status(event)]
  /\ worker' = [worker EXCEPT ![w] = FreeWorker]
  /\ UNCHANGED <<future_to_company, collected, batch_results, batch_pc, limiter_log>>
  /\ UNCHANGED <<time_time, jitter, limiter_vars, released, n_ticks, n_records,
                 fetch_vars, pipe_vars, extract_vars, page_vars,
                 robots_vars, search_vars>>

\* one iteration of "for future in as_completed(future_to_company)"
Collect(i) ==
  /\ batch_pc = "waiting"
  /\ i \in DOMAIN future_state /\ i \notin collected
  /\ future_state[i] \in Outcomes
  /\ LET c == collect(batch_results, future_to_company[i], future_state[i])
     IN /\ batch_results' = c.results
        /\ batch_pc' = IF c.aborted THEN "returned" ELSE batch_pc
  /\ collected' = collected \cup {i}
  /\ UNCHANGED <<future_to_company, future_state, worker, limiter_log>>
  /\ UNCHANGED <<time_time, jitter, limiter_vars, released, n_ticks, n_records,
                 fetch_vars, pipe_vars, extract_vars, page_vars,
                 robots_vars, search_vars>>

\* as_completed is exhausted, the executor is shut down, summary_stats is
\* computed, and the call returns
BatchReturn ==
  /\ batch_pc = "waiting"
  /\ collected = DOMAIN future_to_company
  /\ batch_pc' = "returned"
  /\ batch_results' = [batch_results EXCEPT
                         !.summary_stats = summary_stats(batch_results)]
  /\ UNCHANGED <<future_to_company, future_state, collected, worker, limiter_log>>
  /\ UNCHANGED <<time_time, jitter, limiter_vars, released, n_ticks, n_records,
                 fetch_vars, pipe_vars, extract_vars, page_vars,
                 robots_vars, search_vars>>

\* ------------------------------------------- the limiter driven on its own

LimiterInit ==
  /\ time_time = 0
  /\ jitter \in JitterSet
  /\ domain_requests = [h \in Hosts |-> <<>>]
  /\ rl_domain_failures = [h \in Hosts |-> 0]
  /\ domain_last_request = [h \in Hosts |-> NoRequest]
  /\ success_streak = [h \in Hosts |-> 0]
  /\ adaptive_multiplier = [h \in Hosts |-> adaptive_default]
  /\ released = [h \in Hosts |-> <<>>]
  /\ n_ticks = 0
  /\ n_records = 0

WindowInit ==
  /\ LimiterInit /\ FetchInit /\ RESPECT_ROBOTS_TXT = FALSE /\ PipeInit
  /\ BatchInit /\ ExtractIdle /\ ScrapeIdle /\ RobotsInit /\ SearchIdle

\* a caller (safe_request) asks for a slot on host A with the configured delay
LimiterWait ==
  /\ Len(released["A"]) < MaxWaitCalls
  /\ wait_if_needed("A", REQUEST_DELAY)
  /\ UNCHANGED <<jitter, rl_domain_failures, success_streak, adaptive_multiplier,
                 n_ticks, n_records, fetch_vars, pipe_vars, batch_vars,
                 extract_vars, page_vars,
                 robots_vars, search_vars>>

LimiterSuccess ==
  /\ n_records < MaxRecordCalls
  /\ n_records' = n_records + 1
  /\ record_success("A")
  /\ UNCHANGED <<time_time, jitter, domain_requests, domain_last_request,
                 released, n_ticks, fetch_vars, pipe_vars, batch_vars,
                 extract_vars, page_vars,
                 robots_vars, search_vars>>

LimiterFailure ==
  /\ n_records < MaxRecordCalls
  /\ n_records' = n_records + 1
  /\ record_failure("A")
  /\ UNCHANGED <<time_time, jitter, domain_requests, domain_last_request,
                 released, n_ticks, fetch_vars, pipe_vars, batch_vars,
                 extract_vars, page_vars,
                 robots_vars, search_vars>>

\* time passes between two calls (after the first recorded request)
Tick ==
  /\ pc = "idle"
  /\ \E h \in Hosts : domain_last_request[h] # NoRequest
  /\ n_ticks < MaxTicks
  /\ n_ticks' = n_ticks + 1
  /\ time_time' = time_time + TickStep
  /\ UNCHANGED <<jitter, limiter_vars, released, n_records, fetch_vars, pipe_vars, batch_vars,
                 extract_vars, page_vars,
                 robots_vars, search_vars>>

LimiterNext == LimiterWait \/ LimiterSuccess \/ LimiterFailure \/ Tick

\* the adapters report the outcome of a request to a host
RecordSuccess(domain) ==
  /\ n_records < MaxAdaptiveCalls
  /\ n_records' = n_records + 1
  /\ record_success(domain)
  /\ UNCHANGED <<time_time, jitter, domain_requests, domain_last_request,
                 released, n_ticks, fetch_vars, pipe_vars, batch_vars,
                 extract_vars, page_vars, robots_vars, search_vars>>

RecordFailure(domain) ==
  /\ n_records < MaxAdaptiveCalls
  /\ n_records' = n_records + 1
  /\ record_failure(domain)
  /\ UNCHANGED <<time_time, jitter, domain_requests, domain_last_request,
                 released, n_ticks, fetch_vars, pipe_vars, batch_vars,
                 extract_vars, page_vars, robots_vars, search_vars>>

AdaptiveNext ==
  \/ \E domain \in Hosts : RecordSuccess(domain)
  \/ \E domain \in Hosts : RecordFailure(domain)

\* any sequence of record_success and record_failure calls on a fresh limiter
SpecAdaptive == WindowInit /\ [][AdaptiveNext]_vars

SpecWindow == WindowInit /\ [][LimiterNext]_vars

\* ------------------------------------------------ the orchestrator's runs

quiet_vars == <<time_time, jitter, limiter_vars, released, n_ticks, n_records,
                fetch_vars, batch_vars, extract_vars, page_vars,
                 robots_vars, search_vars>>

Init ==
  /\ LimiterInit /\ jitter = jitter_low
  /\ FetchInit /\ RESPECT_ROBOTS_TXT = FALSE
  /\ PipeInit
  /\ BatchInit
  /\ ExtractIdle /\ ScrapeIdle /\ RobotsInit /\ SearchIdle

Next ==
  \/ \E c \in CompanyNames, m \in MaxExperiencesChoices, f \in BOOLEAN :
       RunStart(c, m, f) /\ UNCHANGED quiet_vars
  \/ \E page \in Pages, fault \in BOOLEAN :
       CollectRecord(page, fault) /\ UNCHANGED quiet_vars
  \/ PlatformDone /\ UNCHANGED quiet_vars
  \/ AdapterFails /\ UNCHANGED quiet_vars
  \/ \E fault \in BOOLEAN : AnalyzeExperience(fault) /\ UNCHANGED quiet_vars
  \/ \E fault \in BOOLEAN : GenerateInsights(fault) /\ UNCHANGED quiet_vars
  \/ HoursPass /\ UNCHANGED quiet_vars

Spec == Init /\ [][Next]_vars

\* ------------------------------------------------------------ store claims

UniqueUrls ==
  \A i, j \in DOMAIN experiences :
    experiences[i].source_url = experiences[j].source_url => i = j

\* C1: the store never holds two experience rows with one source_url, and a
\* _store_experience call for a stored source_url adds no row, changes no
\* row, and (unless the store itself fails) returns the existing row's id.
C1_StoreIdempotent ==
  [][ /\ UniqueUrls'
      /\ (n_store' = n_store + 1
            /\ existing_id(experiences, store_call'.page) # 0) =>
           /\ experiences' = experiences
           /\ companies' = companies
           /\ ~store_call'.fault =>
                store_call'.ret = existing_id(experiences, store_call'.page) ]_vars

C1_Witness ==
  /\ store_call.existed /\ ~store_call.fault
  /\ store_call.ret # 0
  /\ store_call.ret = existing_id(experiences, store_call.page)
  /\ Len(experiences) >= 2

\* C8 (as claimed): whatever runs were made, also more than 24 hours apart,
\* the store holds at most one TopicMention row per (experience, topic).
C8_OneMentionPerPair == \A k \in DOMAIN mentions : mentions[k] <= 1

\* C9: a committed _store_company_insights leaves exactly one CompanyInsight
\* row for every topic of the new result and no other row of the company,
\* and leaves the other companies' rows alone; one that hits a store error
\* leaves all rows as they were (delete and insert are one unit of work).
C9_InsightsReplaced ==
  [][ (n_insight' = n_insight + 1) =>
        IF insight_call'.fault
        THEN insights' = insights
        ELSE \A k \in DOMAIN insights :
               insights'[k] =
                 IF k[1] # insight_call'.company THEN insights[k]
                 ELSE IF k[2] \in insight_call'.result THEN 1 ELSE 0 ]_vars

C9_Witness ==
  /\ n_insight >= 2 /\ ~insight_call.fault
  /\ insight_call.result = {"t1", "t2"}
  /\ \A t \in TopicNames : insights[<<insight_call.company, t>>] = 1
  /\ run.status = "success" /\ run.pc = "idle"

\* C10 (as claimed): when the analysis stage has completed without a store
\* error, every experience that was due (processed_at null or older than 24
\* hours) has processed_at set to the time of this run, so every experience
\* of the company is in the insight rollup.
C10_DueAllProcessed ==
  (run.pc = "insights" /\ ~run.fault) =>
    /\ \A i \in run.due : experiences[i].processed_at = utcnow
    /\ company_experiences(run.company) = experiences_with_topic_data(run.company)

\* C11 (as claimed): a processed experience row is never changed again: once
\* processed_at is set, no later step of any run changes a field of the row
\* or writes further mentions for it.
C11_MutatedOnce ==
  [][\A i \in DOMAIN experiences :
       experiences[i].processed_at # NULL =>
         /\ experiences'[i] = experiences[i]
         /\ \A t \in TopicNames : mentions'[<<i, t>>] = mentions[<<i, t>>]]_vars


\* every adapter has been invoked when the collection stage has ended, and
\* each adapter that raised has its error in platform_results
AllAdaptersReported ==
  (run.scraping_performed /\ run.pc # "collection") =>
    /\ \A p \in 1..NumScrapers : run.platform_results[p] \in {"ok", "error"}
    /\ Cardinality({p \in 1..NumScrapers : run.platform_results[p] = "error"})
         = run.adapter_faults

OlderThanThreshold(company_name) ==
  LET rows == company_experiences(company_name)
  IN \/ rows = {}
     \/ \A i \in rows : utcnow - experiences[i].scraped_at > days_threshold * 24

\* C16 (as claimed): the collection stage invokes the adapters if and only if
\* force_refresh is set, or the stored count of the company is below
\* max_experiences, or its most recent scraped_at is older than 7 days (no
\* stored experience counts as stale); otherwise no adapter is called and
\* newly_scraped is 0.
C16_CollectionGate ==
  [][\A c \in CompanyNames, m \in MaxExperiencesChoices, f \in BOOLEAN :
       RunStart(c, m, f) =>
         /\ run'.scraping_performed <=>
              \/ f
              \/ get_existing_experience_count(c) < m
              \/ OlderThanThreshold(c)
         /\ ~run'.scraping_performed =>
              /\ run'.pc # "collection" /\ run'.newly_scraped = 0
              /\ \A p \in 1..NumScrapers : run'.platform_results[p] = "none"]_vars

\* the second of two runs in a row for one company, in which no new
\* experience was stored, with no store error in either run
SecondRunNoNewData ==
  /\ run.prev_company = run.company
  /\ run.inserted = 0
  /\ ~run.prev_store_error /\ ~run.store_error

\* C17: when run_complete_analysis is called twice in a row for a company
\* with force_refresh = false and the second call finds no new remote data,
\* the company's CompanyInsight rows after the second call are those after
\* the first: same topics, same weighted_frequency and sample_size; only
\* analysis_date may differ.  (Stated for calls without store errors; it
\* holds whatever force_refresh and max_experiences the two calls have.)
C17_InsightsIdempotent ==
  [][(run.pc = "insights" /\ run'.pc = "idle" /\ SecondRunNoNewData
        /\ ~run'.store_error) =>
       \A t \in TopicNames :
         LET k == <<run.company, t>>
         IN /\ insights'[k] = insights[k]
            /\ insight_rows'[k].weighted_frequency = insight_rows[k].weighted_frequency
            /\ insight_rows'[k].sample_size = insight_rows[k].sample_size]_vars

C17_Witness ==
  /\ run.pc = "idle" /\ run.status = "success" /\ SecondRunNoNewData
  /\ n_insight = 2
  /\ insight_rows[<<run.company, "t1">>].sample_size = 3
  /\ insight_rows[<<run.company, "t1">>].weighted_frequency = 66
  /\ insight_rows[<<run.company, "t1">>].analysis_date = HourStep

\* C18 (as claimed): a store error in a persistence write of the pipeline
\* rolls that unit of work back, leaving the store as before the write, and
\* is propagated: a run in which a store error occurred does not end with
\* status success.
C18_StoreErrorPropagated ==
  /\ [][(n_faults' = n_faults + 1 /\ run'.platform_results = run.platform_results) =>
          UNCHANGED <<companies, experiences, topics, mentions, insights,
                      insight_rows>>]_vars
  /\ []((run.pc = "idle" /\ run.store_error) => run.status # "success")

\* ------------------------------------------- one adapter fetching its urls

FetchNext ==
  \/ \E url \in Urls : SafeRequestDuplicate(url)
  \/ \E url \in Urls, answer \in RobotsAnswers : SafeRequestBlocked(url, answer)
  \/ \E url \in Urls, answer \in RobotsAnswers : SafeRequestStart(url, answer)
  \/ \E response \in Responses : Attempt(response)
  \/ Tick

\* a fresh adapter with its limiter, either robots setting, any jitter draw
AdapterInit ==
  LimiterInit /\ FetchInit /\ PipeInit /\ BatchInit /\ ExtractIdle /\ ScrapeIdle
    /\ RobotsInit /\ SearchIdle

SpecFetch == AdapterInit /\ [][FetchNext]_vars

\* the retry loop is straight-line code: every HTTP attempt ends (timeout) and
\* every sleep is finite, so a started loop iteration is eventually executed
FairFetch == SpecFetch /\ WF_vars(\E response \in Responses : Attempt(response))

\* a step that starts a safe_request call
CallStarts == n_calls' = n_calls + 1

\* C2: once a url is in seen_urls (added exactly on a 200 for it), a later
\* safe_request for it returns null with no HTTP attempt, without consulting
\* robots or the rate limiter, and counts one duplicate.
C2_DuplicateSuppressed ==
  [][ /\ (CallStarts /\ call'.url \in seen_urls) =>
           /\ result' = "null" /\ pc' = "idle"
           /\ stats'.requests_made = stats.requests_made
           /\ stats'.duplicates_found = stats.duplicates_found + 1
           /\ ~call'.robots /\ ~call'.limiter
           /\ UNCHANGED <<limiter_vars, released, time_time, seen_urls>>
      /\ (seen_urls' # seen_urls) =>
           /\ pc = "attempt"
           /\ call'.responses[Len(call'.responses)] = "200"
           /\ seen_urls' = seen_urls \cup {call.url}
      /\ (pc = "attempt" /\ call'.attempts = call.attempts + 1
            /\ call'.responses[Len(call'.responses)] = "200") =>
           call.url \in seen_urls' ]_vars

C2_Witness ==
  /\ pc = "idle" /\ call.seen_before /\ call.url \in seen_urls
  /\ result = "null" /\ stats.duplicates_found = 1 /\ stats.requests_made = 1

\* C3: a safe_request call makes at most MAX_RETRIES HTTP attempts whatever
\* the host answers, a call answered 429 on every attempt returns null after
\* MAX_RETRIES attempts, and every started retry loop ends.
C3_BoundedRetries ==
  /\ [](/\ call.attempts <= MAX_RETRIES
        /\ (pc = "attempt" => call.attempts < MAX_RETRIES)
        /\ (call.attempts = MAX_RETRIES => pc = "idle")
        /\ ((\A i \in 1..Len(call.responses) : call.responses[i] = "429")
              /\ Len(call.responses) = MAX_RETRIES => result = "null"))
  /\ ((pc = "attempt") ~> (pc = "idle"))

C3_Witness ==
  /\ pc = "idle" /\ result = "null"
  /\ Len(call.responses) = MAX_RETRIES
  /\ \A i \in 1..Len(call.responses) : call.responses[i] = "429"

\* C5 (as claimed): after three 403 responses from a host with no 200 in
\* between, a safe_request to that host returns null without an HTTP attempt
\* and without any sleep.
C5_ShortCircuitNoSleep ==
  (pc = "idle" /\ call.url # "none" /\ call.forbidden_before >= 3
     /\ ~call.seen_before /\ call.limiter) =>
    (result = "null" /\ call.attempts = 0 /\ call.slept = 0)

\* C6: 429 on attempt 0 and 200 on attempt 1 of one call: the call returns
\* the body, the url is in seen_urls, and the limiter saw one failure then
\* one success, its failure count going up by one (0 -> 1) and then to 0.
C6_RateLimitedThenOk ==
  (call.responses = <<"429", "200">>) =>
    /\ pc = "idle" /\ result = "body"
    /\ call.url \in seen_urls
    /\ call.rl_calls = <<"failure", "success">>
    /\ call.rl_trace = <<call.rl_trace[1], call.rl_trace[1] + 1, 0>>
    /\ rl_domain_failures[HostOf(call.url)] = 0

C6_Witness ==
  /\ call.responses = <<"429", "200">>
  /\ call.rl_trace = <<0, 1, 0>>
  /\ result = "body"

\* C7 (as claimed): after a 404 response no further HTTP attempt is made in
\* the call, which returns null after that attempt.
C7_NotFoundNotRetried ==
  \A i \in 1..Len(call.responses) :
    call.responses[i] = "404" =>
      (i = Len(call.responses) /\ (pc = "idle" => result = "null"))

\* number of requests released to host h in the 60 s ending at its latest release
ReleasedInWindow(h) ==
  LET r == released[h]
  IN IF r = <<>> THEN 0
     ELSE Cardinality({i \in 1..Len(r) : r[Len(r)] - r[i] < window_seconds * 1000})

\* C4 (as claimed): in any 60-second window at most requests_per_minute
\* requests are released to a host.
C4_WindowBound == \A h \in Hosts : ReleasedInWindow(h) <= base_requests_per_minute


\* ------------------------------------------- a batch over the worker pool

BatchNext ==
  \/ \E company_list \in BatchLists : BatchSubmit(company_list)
  \/ \E w \in Workers : WorkerTake(w)
  \/ \E w \in Workers, op \in {"success", "failure"} : LimiterBegin(w, op)
  \/ \E w \in Workers : LimiterEnd(w)
  \/ \E w \in Workers, event \in RunEvents : WorkerFinish(w, event)
  \/ \E i \in DOMAIN future_to_company : Collect(i)
  \/ BatchReturn

SpecBatch == Init /\ [][BatchNext]_vars

\* the pool threads and the calling thread are scheduled by the interpreter,
\* and every run_complete_analysis ends: its loops are over finite lists
FairBatch ==
  /\ SpecBatch
  /\ \A w \in Workers :
       WF_vars(WorkerTake(w) \/ LimiterEnd(w)
                 \/ \E outcome \in Outcomes : WorkerFinish(w, outcome))
  /\ WF_vars((\E i \in DOMAIN future_to_company : Collect(i)) \/ BatchReturn)

\* C12: run_batch_analysis returns for every companies list and every
\* combination of per-company failures; when it has returned, every submitted
\* company has been run to completion and
\* len(companies_processed) + len(errors) is the number of submitted companies.
C12_BatchNeverAborts ==
  /\ [](batch_pc = "returned" =>
          /\ \A i \in DOMAIN future_to_company : future_state[i] \in Outcomes
          /\ collected = DOMAIN future_to_company
          /\ Len(batch_results.companies_processed) + Len(batch_results.errors)
               = Len(future_to_company))
  /\ ((batch_pc = "waiting") ~> (batch_pc = "returned"))

C12_Witness ==
  /\ batch_pc = "returned"
  /\ Len(future_to_company) = 2
  /\ Len(batch_results.companies_processed) = 2
  /\ \E i \in DOMAIN future_state : future_state[i] = "error"
  /\ \E i \in DOMAIN future_state : future_state[i] = "success"

\* C14 (as claimed): no two workers execute run_complete_analysis for the
\* same company at the same time.
C14_DistinctCompanies ==
  \A v, w \in Workers :
    (v # w /\ worker[v].pc # "free" /\ worker[w].pc # "free") =>
      future_to_company[worker[v].future] # future_to_company[worker[w].future]

\* the limiter state of the shared host after the calls of a log, one after
\* the other, from the state of a new limiter
RECURSIVE replay(_, _)
replay(log, state) ==
  IF log = <<>> THEN state
  ELSE replay(Tail(log),
              IF Head(log) = "failure"
              THEN failure_update(state.f, state.s, state.m)
              ELSE success_update(state.f, state.s, state.m))

Orders(n) == {p \in [1..n -> 1..n] : \A i, j \in 1..n : p[i] = p[j] => i = j}

\* C15 (as claimed): whenever no limiter call is in progress, the failure
\* counter, success streak and adaptive multiplier of the shared host are
\* those that some sequential order of the calls made so far produces.
C15_LimiterAtomic ==
  (\A w \in Workers : worker[w].pc # "mid") =>
    \E p \in Orders(Len(limiter_log)) :
      replay([i \in 1..Len(limiter_log) |-> limiter_log[p[i]]],
             [f |-> 0, s |-> 0, m |-> adaptive_default])
        = [f |-> rl_domain_failures[SharedHost],
           s |-> success_streak[SharedHost],
           m |-> adaptive_multiplier[SharedHost]]

\* ------------------------------------------- the extractor called on a page

ExtractSpecInit ==
  /\ LimiterInit /\ jitter = jitter_low
  /\ FetchInit /\ RESPECT_ROBOTS_TXT = FALSE
  /\ PipeInit
  /\ BatchInit
  /\ ExtractInit /\ ScrapeIdle /\ RobotsInit /\ SearchIdle

SpecExtract == ExtractSpecInit /\ [][Extract]_vars

\* the lowercased title + " " + content of the call
CallText == lower(extraction.title \o <<" ">> \o extraction.content)

\* the pattern stands in the text as whole words: with a blank (or the end
\* of the text) on either side
WholeWords(pattern, text) ==
  occurs_in(<<" ">> \o pattern \o <<" ">>, <<" ">> \o text \o <<" ">>)

\* entry i of the table has a pattern that stands in the text as whole words
EntryMatches(i) ==
  \E j \in DOMAIN company_patterns[i].patterns :
    WholeWords(company_patterns[i].patterns[j], CallText)

\* C19: without a target, or with a target that does not match, the result is
\* the first canonical name in table order one of whose patterns matches the
\* lowercased title + content, and "Unknown" exactly when no entry matches.
C19_PriorityOrder ==
  (/\ extraction.result # "none"
   /\ \/ extraction.target_company = "None"
      \/ check_target_company_first(extraction.title, extraction.content,
                                    extraction.target_company) = "Unknown") =>
    /\ extraction.result = "Unknown" <=>
         \A i \in DOMAIN company_patterns : ~EntryMatches(i)
    /\ \A i \in DOMAIN company_patterns :
         (EntryMatches(i) /\ \A j \in 1..(i - 1) : ~EntryMatches(j)) =>
           extraction.result = company_patterns[i].name

C19_Witness ==
  /\ extraction.target_company = "None"
  /\ EntryMatches(1) /\ EntryMatches(2)
  /\ extraction.result = "Ab"

\* C20 (as claimed): a company is returned, the given target included, only
\* if one of its patterns stands in the lowercased text as whole words.
C20_WordBoundaries ==
  (extraction.result \notin {"none", "Unknown"}) =>
    LET patterns == patterns_for(extraction.result)
    IN \E j \in DOMAIN patterns : WholeWords(patterns[j], CallText)

\* ------------------------------------------- one page: specification, claims

ScrapeSpecInit ==
  /\ LimiterInit /\ jitter = jitter_low
  /\ FetchInit /\ RESPECT_ROBOTS_TXT = FALSE
  /\ PipeInit
  /\ BatchInit
  /\ ExtractIdle /\ ScrapeInit /\ RobotsInit /\ SearchIdle

SpecScrape == ScrapeSpecInit /\ [][ScrapeNext]_vars

\* C21 (as claimed): every record that scrape_company_experiences yields, and
\* every experience stored from it, has 0.01 <= time_weight <= 1.0, whatever
\* date the adapter extracted from the page.
C21_TimeWeightRange ==
  /\ scrape.pc \in {"yielded", "stored"} =>
       /\ min_weight <= scrape.record.time_weight
       /\ scrape.record.time_weight <= weight_one
  /\ scrape.pc = "stored" =>
       /\ min_weight <= scrape.row.time_weight
       /\ scrape.row.time_weight <= weight_one

\* C22 (as claimed): extract_experience_data returns None for a page without
\* title or with fewer than 100 characters of content, so every record
\* handed on and every stored experience has a title and at least 100
\* characters of content.
C22_RecordsWellFormed ==
  /\ scrape.pc \in {"extracted", "yielded", "stored"} =>
       /\ scrape.title_len >= 1 /\ scrape.content_len >= 100
       /\ scrape.record.title_len >= 1 /\ scrape.record.content_len >= 100
  /\ scrape.pc = "stored" =>
       /\ scrape.row.title_len >= 1 /\ scrape.row.content_len >= 100

\* ------------------------------------------- the adaptive multiplier

\* C23: for every host and every sequence of record_success and
\* record_failure calls the adaptive multiplier starts at 1.0 and stays in
\* [0.8, 3.0]; a record_success lowers it (x0.9, not below 0.8) exactly when
\* it brings the success streak to 5, and the streak is then reset; every
\* record_failure raises it (x1.2, not above 3.0); no call changes another
\* host's multiplier.
C23_AdaptiveMultiplier ==
  /\ []( /\ \A h \in Hosts : /\ adaptive_floor <= adaptive_multiplier[h]
                              /\ adaptive_multiplier[h] <= adaptive_ceiling
         /\ n_records = 0 => \A h \in Hosts : adaptive_multiplier[h] = adaptive_default )
  /\ [][ \A h \in Hosts :
           LET m == adaptive_multiplier[h]
               failed == rl_domain_failures'[h] = rl_domain_failures[h] + 1
               succeeded == ~failed /\ <<rl_domain_failures[h], success_streak[h]>>
                                        # <<rl_domain_failures'[h], success_streak'[h]>>
           IN /\ failed =>
                   /\ adaptive_multiplier'[h] = Min(adaptive_ceiling, (m * 12) \div 10)
                   /\ adaptive_multiplier'[h] >= m
                   /\ (m < adaptive_ceiling => adaptive_multiplier'[h] > m)
                   /\ success_streak'[h] = 0
              /\ succeeded =>
                   IF success_streak[h] + 1 = success_streak_limit
                   THEN /\ adaptive_multiplier'[h] = Max(adaptive_floor, (m * 9) \div 10)
                        /\ success_streak'[h] = 0
                   ELSE /\ adaptive_multiplier'[h] = m
                        /\ success_streak'[h] = success_streak[h] + 1
              /\ (adaptive_multiplier'[h] < m) =>
                   /\ ~failed
                   /\ success_streak[h] + 1 = success_streak_limit
                   /\ success_streak'[h] = 0
              /\ (~failed /\ ~succeeded) => adaptive_multiplier'[h] = m ]_vars

\* seven failures have brought host A to 3.0 and five successes then
\* lowered it to 2.7
C23_Witness ==
  /\ adaptive_multiplier["A"] = (adaptive_ceiling * 9) \div 10
  /\ success_streak["A"] = 0 /\ rl_domain_failures["A"] = 0
  /\ n_records = 12

\* ------------------------------------------- the effective wait

\* the wait of the claim, in ms: the largest of base_delay, the time until
\* the window has room, the failure backoff and the adaptive multiplier
\* (taken as seconds), less the time since the host's last request
MaxOfFactors(domain, base_delay, current_time) ==
  LET requests == drop_old(domain_requests[domain], current_time)
      window == IF Len(requests) >= base_requests_per_minute
                THEN window_seconds * 1000 - (current_time - Head(requests))
                ELSE 0
      backoff == IF rl_domain_failures[domain] > 0
                 THEN backoff_time(rl_domain_failures[domain]) ELSE 0
      adaptive == adaptive_multiplier[domain] \div 10
      largest == Max(Max(base_delay * 1000, window), Max(backoff, adaptive))
  IN Max(largest - (current_time - domain_last_request[domain]), 0)

\* C24 (as claimed): for a host with a recorded request, the wait that
\* wait_if_needed computes before jitter is the maximum of base_delay, the
\* window time, the failure backoff and the adaptive multiplier, minus the
\* time since the host's last request, floored at 0; with nothing elapsed it
\* is not below base_delay.
C24_EffectiveWait ==
  \A h \in Hosts, base_delay \in {REQUEST_DELAY, 2, 5} :
    domain_last_request[h] # NoRequest =>
      /\ calculate_wait_time(h, base_delay, time_time)
           = MaxOfFactors(h, base_delay, time_time)
      /\ time_time = domain_last_request[h] =>
           calculate_wait_time(h, base_delay, time_time) >= base_delay * 1000

\* ------------------------------------------- the robots policy cache

RobotsSpecInit ==
  /\ LimiterInit /\ jitter = jitter_low
  /\ FetchInit /\ RESPECT_ROBOTS_TXT = TRUE
  /\ PipeInit
  /\ BatchInit
  /\ ExtractIdle /\ ScrapeIdle /\ RobotsInit /\ SearchIdle

SpecRobots == RobotsSpecInit /\ [][RobotsNext]_vars

\* C25 (as claimed): a can_fetch call for a host whose entry (a policy or
\* the null result) was cached less than 1 hour ago answers from the cache
\* without fetching robots.txt; for a host with no entry or an entry at
\* least 1 hour old it fetches robots.txt once and sets the entry's
\* timestamp to now; a null entry answers (allowed = true, crawl_delay = 5).
C25_RobotsCacheTTL ==
  [][ (n_robots' = n_robots + 1) =>
        LET h == robots_call'.domain
            fresh == /\ robots_cache[h].kind # "absent"
                     /\ time_time - robots_cache_ttl[h] < cache_duration
        IN /\ fresh => /\ robots_call'.fetches = 0
                        /\ robots_cache'[h] = robots_cache[h]
                        /\ robots_cache_ttl'[h] = robots_cache_ttl[h]
           /\ ~fresh => /\ robots_call'.fetches = 1
                         /\ robots_cache'[h].kind # "absent"
                         /\ robots_cache_ttl'[h] = time_time
           /\ robots_cache'[h].kind = "null" => robots_call'.answer = <<TRUE, 5>>
           /\ \A g \in Hosts \ {h} : /\ robots_cache'[g] = robots_cache[g]
                                      /\ robots_cache_ttl'[g] = robots_cache_ttl[g]
    ]_vars

\* ---------------------------------------- circuit breaker and the limiter

\* a step that makes one HTTP attempt
HttpAttempt == stats'.requests_made = stats.requests_made + 1

\* C26: once domain_failures[host] has reached MAX_CONSECUTIVE_FAILURES, the
\* counter never falls below it again and no HTTP attempt is made to the
\* host, neither in the call that reached the threshold nor in a later one;
\* a later call for the host returns null from the breaker test.
C26_BreakerNeverCloses ==
  /\ [][ \A h \in Hosts :
           domain_failures[h] >= MAX_CONSECUTIVE_FAILURES =>
             /\ domain_failures'[h] >= MAX_CONSECUTIVE_FAILURES
             /\ ~(HttpAttempt /\ HostOf(call.url) = h)
             /\ (CallStarts /\ HostOf(call'.url) = h) =>
                  (pc' = "idle" /\ result' = "null" /\ call'.attempts = 0)
      ]_vars
  /\ [](pc = "attempt" =>
          domain_failures[HostOf(call.url)] < MAX_CONSECUTIVE_FAILURES)

C26_Witness ==
  /\ domain_failures["A"] = MAX_CONSECUTIVE_FAILURES
  /\ pc = "idle" /\ HostOf(call.url) = "A" /\ call.url # "none"
  /\ call.limiter /\ call.attempts = 0 /\ result = "null"
  /\ stats.requests_made = MAX_CONSECUTIVE_FAILURES

\* requests the limiter has recorded, all hosts
RecordedTotal == Len(released["A"]) + Len(released["B"])

\* the call that starts was stopped by the duplicate or the robots check
StoppedBeforeLimiter ==
  \/ stats'.duplicates_found # stats.duplicates_found
  \/ stats'.robots_blocked # stats.robots_blocked

\* C27: a safe_request call that passes the duplicate and robots checks
\* performs exactly one wait_if_needed, which records one request for the
\* host (also when the breaker then returns null); a call stopped by those
\* checks records none; an HTTP attempt records none.  So the attempts made
\* are at most MAX_RETRIES times the requests recorded, and exceed them by
\* at most MAX_RETRIES - 1 per call.
C27_LimiterOncePerCall ==
  /\ [][ /\ (CallStarts /\ ~StoppedBeforeLimiter) =>
             LET h == HostOf(call'.url)
             IN /\ call'.limiter
                /\ released'[h] = Append(released[h], time_time')
                /\ domain_requests'[h]
                     = Append(drop_old(domain_requests[h], time_time), time_time)
                /\ domain_last_request'[h] = time_time
                /\ \A g \in Hosts \ {h} :
                     /\ released'[g] = released[g]
                     /\ domain_requests'[g] = domain_requests[g]
         /\ (CallStarts /\ StoppedBeforeLimiter) =>
             /\ ~call'.limiter
             /\ UNCHANGED <<released, domain_requests, domain_last_request>>
         /\ HttpAttempt =>
             UNCHANGED <<released, domain_requests, domain_last_request>>
      ]_vars
  /\ [](/\ stats.requests_made <= MAX_RETRIES * RecordedTotal
        /\ stats.requests_made <= RecordedTotal + (MAX_RETRIES - 1) * n_calls)

C27_Witness ==
  /\ pc = "idle" /\ n_calls = 2 /\ RecordedTotal = 2
  /\ stats.requests_made = RecordedTotal + (MAX_RETRIES - 1) * n_calls

\* -------------------------------------------- one url, several params

SearchSpecInit ==
  /\ LimiterInit /\ FetchInit /\ PipeInit /\ BatchInit
  /\ ExtractIdle /\ ScrapeIdle /\ RobotsInit
  /\ SearchInit

SpecSearch == SearchSpecInit /\ [][SearchNext]_vars

\* C28: after a safe_request(url, params=p) that got a 200, every later
\* safe_request(url, params=q) of the adapter returns null without an HTTP
\* attempt, whatever q is; a loop that calls one url with several params
\* gets at most one response from it.
C28_UrlAloneIsTheKey ==
  /\ \A i, j \in DOMAIN search.responses :
       (i < j /\ search.responses[i].response = "body") =>
         /\ search.responses[j].params # search.responses[i].params
         /\ search.responses[j].response = "null"
         /\ search.responses[j].attempts = 0
  /\ Cardinality({i \in DOMAIN search.responses :
                    search.responses[i].response = "body"}) <= 1
  /\ (search.pc = "request" /\ pc = "idle" /\ n_calls > search.call_no
        /\ \E i \in DOMAIN search.responses :
             search.responses[i].response = "body") =>
       (result = "null" /\ call.seen_before /\ call.attempts = 0)

C28_Witness ==
  /\ Len(search.responses) = MaxSearchTerms
  /\ search.responses[1].response = "body"
  /\ search.responses[2].response = "null"
  /\ search.responses[2].params # search.responses[1].params
  /\ stats.duplicates_found = MaxSearchTerms - 1

\* ------------------------------------------------ collection accounting

\* C29 (as claimed): in every run (there is one writer), once the collection
\* stage has counted the company's experiences again, total_experiences <=
\* existing_experiences + newly_scraped.
C29_CollectionAccounting ==
  (run.company # "none" /\ run.pc # "collection") =>
    run.total <= run.existing + run.newly_scraped

\* ----------------------------------------------------- batch accounting

\* the results in companies_processed with one of the given statuses
ProcessedWith(statuses) ==
  {i \in DOMAIN batch_results.companies_processed :
     batch_results.companies_processed[i].status \in statuses}

\* C30: no future of run_batch_analysis ends with an exception, so errors
\* stays empty; when the batch has returned every submitted company has its
\* result in companies_processed, summary_stats.failed_companies (present
\* when some result has status success) is 0 and successful_companies counts
\* the results with status success only: a result with status error or
\* no_data is counted in neither.
C30_BatchAccounting ==
  /\ batch_results.errors = <<>>
  /\ \A i \in DOMAIN future_state : future_state[i] # "raised"
  /\ batch_pc = "returned" =>
       LET summary == batch_results.summary_stats
       IN /\ Len(batch_results.companies_processed) = Len(future_to_company)
          /\ (DOMAIN summary # {}) <=> (ProcessedWith({"success"}) # {})
          /\ (DOMAIN summary # {}) =>
               /\ summary["failed_companies"] = 0
               /\ summary["successful_companies"]
                    = Cardinality(ProcessedWith({"success"}))
               /\ summary["successful_companies"] + summary["failed_companies"]
                    = Len(batch_results.companies_processed)
                        - Cardinality(ProcessedWith({"error", "no_data"}))

C30_Witness ==
  /\ batch_pc = "returned"
  /\ Len(future_to_company) = 2
  /\ Cardinality(ProcessedWith({"success"})) = 1
  /\ Cardinality(ProcessedWith({"error"})) = 1
  /\ DOMAIN batch_results.summary_stats # {}
  /\ batch_results.summary_stats["successful_companies"] = 1
  /\ batch_results.summary_stats["failed_companies"] = 0

====
